---- MODULE Spec2Model ----
(***************************************************************************)
(* A model of the audio streaming core of libdragon as shipped in the      *)
(* Mortgage64 repository: the sample buffer (samplebuffer.c), the WAV64    *)
(* container (wav64.c) and the VADPCM / Opus / raw codecs' read callbacks. *)
(*                                                                         *)
(* Addresses are byte offsets (integers).  A failed assertf()/assert()     *)
(* aborts the program: it is recorded in `err` and nothing runs after it.  *)
(***************************************************************************)
EXTENDS Integers, Sequences, FiniteSets, TLC

VARIABLES
    buf,    \* the samplebuffer_t under test
    err,    \* "" or the name of the assertion that aborted the program
    last,   \* what the most recent operation did and returned (observation)
    wav,    \* the wav64_t being opened by internal_open, and its heap block
    cod     \* the voices streaming one WAV64 through a shared descriptor

vars == <<buf, err, last, wav, cod>>

(***************************************************************************)
(* Bounds of the model.                                                    *)
(***************************************************************************)
MaxRegionWords == 1     \* backing regions of 8, 16, ... bytes
MaxPos == 3             \* logical positions the consumer asks for
MaxLen == 2             \* frames the consumer asks for directly
MaxExtra == 0           \* frames a callback appends beyond what it was asked
MaxUndo == 1            \* frames a callback retracts at loop end

Min(a, b) == IF a < b THEN a ELSE b
Max(a, b) == IF a > b THEN a ELSE b
Shl(x, n) == x * (2 ^ n)
Shr(x, n) == x \div (2 ^ n)
ROUND_UP(n, d) == ((n + d - 1) \div d) * d

(***************************************************************************)
(* samplebuffer.c                                                          *)
(***************************************************************************)
NoObs == [op |-> "init", data |-> -1, called |-> FALSE, rdpos |-> -1,
          rdlen |-> 0, seeking |-> FALSE, got |-> 0, req |-> 0, wpos |-> -1,
          wlen |-> 0, ret |-> -1]

\* samplebuffer_init: size is in bytes until set_bps; the state area is
\* placed at uncached_mem + nbytes.
samplebuffer_init(uncached_mem, nbytes, state_size) ==
    [ptr |-> uncached_mem, bps |-> 0, size |-> nbytes,
     wpos |-> 0, widx |-> 0, ridx |-> 0, wnext |-> -1,
     state |-> IF state_size # 0 THEN uncached_mem + nbytes ELSE -1,
     state_size |-> IF state_size # 0 THEN state_size ELSE 0]

SAMPLES_BPS_SHIFT(b) == b.bps

\* samplebuffer_set_bps: [buf, err]
samplebuffer_set_bps(b, bits_per_sample) ==
    IF ~(bits_per_sample \in {8, 16, 32}) THEN [buf |-> b, err |-> "set_bps_bits"]
    ELSE IF ~(b.widx = 0 /\ b.ridx = 0 /\ b.wpos = 0)
    THEN [buf |-> b, err |-> "set_bps_not_empty"]
    ELSE LET nbytes == Shl(b.size, SAMPLES_BPS_SHIFT(b))
             bps == IF bits_per_sample = 8 THEN 0
                    ELSE IF bits_per_sample = 16 THEN 1 ELSE 2
         IN [buf |-> [b EXCEPT !.bps = bps, !.size = Shr(nbytes, bps)],
             err |-> ""]

ROUNDUP8_BPS(nsamples, bps) ==
    Shl(Shr(nsamples + (Shr(8, bps) - 1), 3 - bps), 3 - bps)

\* A flush that leaves wnext as it was.
samplebuffer_flush_keepnext(b) ==
    [b EXCEPT !.wpos = 0, !.widx = 0, !.ridx = 0]

samplebuffer_flush(b) ==
    [b EXCEPT !.wpos = 0, !.widx = 0, !.ridx = 0, !.wnext = -1]

\* The index discard() moves to offset 0 (0: nothing is discarded).
discard_idx(b, wpos) ==
    LET idx0 == wpos - b.wpos
        idx1 == IF idx0 > b.widx THEN b.widx ELSE idx0
        odd  == (Shl(idx1, SAMPLES_BPS_SHIFT(b)) % 2) = 1
    IN IF idx0 <= 0 THEN 0
       ELSE IF odd THEN idx1 - 1 ELSE idx1

\* Whether discard() copies bytes (and therefore syncs the RSP queue first).
discard_moves(b, wpos) ==
    LET idx == discard_idx(b, wpos)
    IN idx > 0 /\ Shl(b.widx - idx, SAMPLES_BPS_SHIFT(b)) > 0

samplebuffer_discard(b, wpos) ==
    LET idx == discard_idx(b, wpos)
    IN IF idx = 0 THEN b
       ELSE [b EXCEPT !.wpos = @ + idx, !.widx = @ - idx,
                      !.ridx = IF @ - idx < 0 THEN 0 ELSE @ - idx]

\* An append that rolls ridx back to the window start, so that compaction
\* discards nothing.
append_rollback_none(b) == 0

\* A rollback that goes up to the next 8-byte boundary instead of down.
append_rollback_up(b) ==
    LET U == Shr(8, SAMPLES_BPS_SHIFT(b))
    IN Min(b.widx, ((b.ridx + U - 1) \div U) * U)

\* The ridx append() rolls back to before compacting.
append_rollback(b) ==
    LET U == Shr(8, SAMPLES_BPS_SHIFT(b))
    IN b.ridx - (b.ridx % U)

\* samplebuffer_append after the compaction step: b1 is the buffer as
\* compaction left it.
append_place(b1, wlen, synced) ==
    IF (Shl(b1.wpos, SAMPLES_BPS_SHIFT(b1)) % 2) # 0
    THEN [buf |-> b1, data |-> -1, err |-> "append_wpos_odd", synced |-> synced]
    ELSE IF ~(b1.widx + wlen <= b1.size)
    THEN [buf |-> b1, data |-> -1, err |-> "append_too_small", synced |-> synced]
    ELSE [buf |-> [b1 EXCEPT !.widx = @ + wlen],
          data |-> Shl(b1.widx, SAMPLES_BPS_SHIFT(b1)),
          err |-> "", synced |-> synced]

\* samplebuffer_append: [buf, data, err, synced]; data is the byte offset of
\* the returned pointer inside the backing region, synced tells whether the
\* compaction drained the RSP queue (rspq_highpri_sync) before moving bytes.
samplebuffer_append(b, wlen) ==
    IF b.widx + wlen > b.size
    THEN IF ~(b.widx >= b.ridx)
         THEN [buf |-> b, data |-> -1, err |-> "append_consistency",
               synced |-> FALSE]
         ELSE CHOOSE r \in {append_place(samplebuffer_discard(b, keep), wlen,
                                         discard_moves(b, keep)) :
                            keep \in {b.wpos + append_rollback(b)}} : TRUE
    ELSE append_place(b, wlen, FALSE)

\* samplebuffer_undo: [buf, err]
samplebuffer_undo(b, wlen) ==
    IF ~(b.widx >= wlen) THEN [buf |-> b, err |-> "undo_wlen"]
    ELSE [buf |-> [b EXCEPT !.widx = @ - wlen], err |-> ""]

\* The same without the step that keeps the window start on an even byte
\* address (samplebuffer.c:112-114).
get_plan_keepodd(b, wpos, wlen) ==
    LET bps == SAMPLES_BPS_SHIFT(b)
    IN IF b.widx = 0 \/ wpos < b.wpos \/ wpos > b.wpos + b.widx
       THEN [buf |-> [samplebuffer_flush(b) EXCEPT !.wpos = wpos],
             call |-> TRUE, rdpos |-> wpos,
             rdlen |-> ROUNDUP8_BPS(wlen, bps), seeking |-> wpos # b.wnext,
             err |-> ""]
       ELSE LET b1 == [b EXCEPT !.ridx = wpos - b.wpos]
                reuse == b.wpos + b.widx - wpos
            IN IF reuse < wlen
               THEN [buf |-> b1, call |-> wpos + reuse = b.wnext,
                     rdpos |-> wpos + reuse,
                     rdlen |-> ROUNDUP8_BPS(wlen - reuse, bps),
                     seeking |-> FALSE,
                     err |-> IF wpos + reuse = b.wnext THEN ""
                             ELSE "get_wnext"]
               ELSE [buf |-> b1, call |-> FALSE, rdpos |-> -1, rdlen |-> 0,
                     seeking |-> FALSE, err |-> ""]

\* samplebuffer_get up to (and excluding) the wv_read call:
\* [buf, call, rdpos, rdlen, seeking, err]
get_plan(b, wpos, wlen) ==
    LET bps == SAMPLES_BPS_SHIFT(b)
    IN IF b.widx = 0 \/ wpos < b.wpos \/ wpos > b.wpos + b.widx
       THEN LET seeking == wpos # b.wnext
                odd == (Shl(wpos, bps) % 2) = 1
                b1 == [samplebuffer_flush(b) EXCEPT
                          !.wpos = IF odd THEN wpos - 1 ELSE wpos]
                len == IF odd THEN wlen + 1 ELSE wlen
            IN [buf |-> b1, call |-> TRUE, rdpos |-> b1.wpos,
                rdlen |-> ROUNDUP8_BPS(len, bps), seeking |-> seeking,
                err |-> ""]
       ELSE LET b1 == [b EXCEPT !.ridx = wpos - b.wpos]
                reuse == b.wpos + b.widx - wpos
            IN IF reuse < wlen
               THEN [buf |-> b1, call |-> wpos + reuse = b.wnext,
                     rdpos |-> wpos + reuse,
                     rdlen |-> ROUNDUP8_BPS(wlen - reuse, bps),
                     seeking |-> FALSE,
                     err |-> IF wpos + reuse = b.wnext THEN ""
                             ELSE "get_wnext"]
               ELSE [buf |-> b1, call |-> FALSE, rdpos |-> -1, rdlen |-> 0,
                     seeking |-> FALSE, err |-> ""]

\* get_finish with the "report fewer samples" step (samplebuffer.c:150-152)
\* left out.
get_finish_noreduce(b, wpos, wlen, called) ==
    LET b1 == IF called THEN [b EXCEPT !.wnext = b.wpos + b.widx] ELSE b
        idx == wpos - b1.wpos
    IN IF ~(wpos >= b1.wpos /\ wpos < b1.wpos + b1.widx)
       THEN [buf |-> b1, ret |-> -1, wlen |-> wlen, err |-> "get_logic_error"]
       ELSE [buf |-> b1, ret |-> b1.ptr + Shl(idx, SAMPLES_BPS_SHIFT(b1)),
             wlen |-> wlen, err |-> ""]

\* samplebuffer_get after wv_read returned: [buf, ret, wlen, err]
get_finish(b, wpos, wlen, called) ==
    LET b1 == IF called THEN [b EXCEPT !.wnext = b.wpos + b.widx] ELSE b
        idx == wpos - b1.wpos
        len == b1.widx - idx
    IN IF ~(wpos >= b1.wpos /\ wpos < b1.wpos + b1.widx)
       THEN [buf |-> b1, ret |-> -1, wlen |-> wlen, err |-> "get_logic_error"]
       ELSE [buf |-> b1, ret |-> b1.ptr + Shl(idx, SAMPLES_BPS_SHIFT(b1)),
             wlen |-> IF len < wlen THEN len ELSE wlen, err |-> ""]

(***************************************************************************)
(* A generic read callback: it appends k frames with one append call and   *)
(* then retracts u of them (the undo a codec issues at loop end).          *)
(***************************************************************************)
NoWav == [pc |-> "unused"]
NoCod == [pc |-> "unused"]

generic_read(b, k, u) ==
    LET a == IF k > 0 THEN samplebuffer_append(b, k)
             ELSE [buf |-> b, data |-> -1, err |-> "", synced |-> FALSE]
        r == IF a.err = "" /\ u > 0 THEN samplebuffer_undo(a.buf, u)
             ELSE [buf |-> a.buf, err |-> a.err]
    IN [buf |-> r.buf, data |-> a.data, err |-> r.err]

(***************************************************************************)
(* The codec read callbacks.                                               *)
(*                                                                         *)
(* A callback runs in a "world": the sample buffer it appends to, the      *)
(* position of the shared file descriptor, the voice state kept in the     *)
(* buffer's state area, and the RSP high-priority queue.  Sample values    *)
(* are abstracted to identities: logical frame i of the stream has         *)
(* identity i, and -1 stands for anything else (bytes of another position, *)
(* or decoded with another predictor state).  The voice's predictor state  *)
(* is the tag k of "the state after decoding k 16-sample frames" (0 is the *)
(* all-zero state, -1 any other content).                                  *)
(*                                                                         *)
(* A file f is [format, channels, bits, len, loop_len, huff, hbits, skips, *)
(* base, frame_size]: the WAV64 header fields, the VADPCM Huffman flag,    *)
(* the number of bits one Huffman-compressed 9-byte frame takes in this    *)
(* file, the skip points, base_offset, and the Opus frame size.            *)
(***************************************************************************)
WAV64_FORMAT_RAW == 0
WAV64_FORMAT_VADPCM == 1
WAV64_FORMAT_OPUS == 3
WAV64_NUM_FORMATS == 4
MAX_VADPCM_FRAMES == 94
VADPCM_FRAME_BYTES == 9
VADPCM_FRAME_SAMPLES == 16
SIZEOF_STATE_VADPCM == 48
SIZEOF_HEADER_VADPCM == 88

NewWorld(b, fd) ==
    [buf |-> b, fd |-> fd, bitpos |-> 0, tag |-> -1, rspq |-> 0,
     mine |-> 0, log |-> <<>>, err |-> "", data |-> -1, seekoff |-> -1,
     readoff |-> -1, preseek |-> FALSE, seektag |-> -2, endpos |-> -1,
     undone |-> 0]

\* The world at the entry of one callback invocation: the per-invocation
\* observations are cleared.
EnterRead(w) ==
    [w EXCEPT !.seekoff = -1, !.readoff = -1, !.preseek = FALSE,
              !.seektag = -2, !.endpos = -1, !.undone = 0, !.data = -1,
              !.mine = 0, !.log = <<>>]

Fail(w, name) == IF w.err = "" THEN [w EXCEPT !.err = name] ELSE w

\* lseek(fd, off, SEEK_SET); the first offset of the invocation is observed.
w_lseek(w, off) ==
    [w EXCEPT !.fd = off, !.seekoff = IF @ = -1 THEN off ELSE @]

\* read(fd, ., n): advances the descriptor; the offset of the invocation's
\* first read, and whether a seek came before it, are observed.
w_read(w, n) ==
    [w EXCEPT !.fd = @ + n,
              !.readoff = IF @ = -1 THEN w.fd ELSE @,
              !.preseek = IF w.readoff = -1 THEN w.seekoff # -1 ELSE @]

\* samplebuffer_append inside a world.
w_append(w, n) ==
    CHOOSE r \in {[w EXCEPT !.buf = a.buf, !.data = a.data,
                            !.err = a.err,
                            !.rspq = IF a.synced THEN 0 ELSE @,
                            !.mine = IF a.synced THEN 0 ELSE @] :
                  a \in {samplebuffer_append(w.buf, n)}} : TRUE

\* samplebuffer_undo inside a world.
w_undo(w, n) ==
    CHOOSE r \in {[w EXCEPT !.buf = u.buf, !.err = u.err, !.undone = n] :
                  u \in {samplebuffer_undo(w.buf, n)}} : TRUE

\* rspq_highpri_sync: returns when the queue has drained.
w_sync(w) == [w EXCEPT !.rspq = 0, !.mine = 0]

\* rspq_write of one job (rsp_vadpcm_decompress, rsp_vadpcm_copystate):
\* rspq counts the jobs pending in the queue, mine those of them that the
\* running callback invocation submitted.
w_job(w) == [w EXCEPT !.rspq = @ + 1, !.mine = @ + 1]

\* One decoded extent: n logical frames from wpos, holding identities
\* src.. (or -1), written as nbytes bytes at byte offset dest of the region.
Extent(wpos, n, src, dest, nbytes) ==
    [wpos |-> wpos, n |-> n, src |-> src, dest |-> dest, nbytes |-> nbytes]

(***************************************************************************)
(* wav64.c: uncompressed samples                                           *)
(***************************************************************************)
none_bps(f) ==
    (IF f.bits = 8 THEN 0 ELSE 1) + (IF f.channels = 2 THEN 1 ELSE 0)

raw_waveform_read(f, w, wpos, wlen, bps) ==
    CHOOSE r \in
      {IF a.err # "" THEN a
       ELSE [w_read(a, Shl(wlen, bps)) EXCEPT
               !.log = Append(@, Extent(wpos, wlen,
                          IF a.fd = f.base + Shl(wpos, bps) THEN wpos ELSE -1,
                          a.data, Shl(wlen, bps))),
               !.endpos = wpos + wlen] :
       a \in {w_append(w, wlen)}} : TRUE

wav64_none_read(f, w, wpos, wlen, seeking) ==
    raw_waveform_read(f, w_lseek(w, f.base + Shl(wpos, none_bps(f))),
                      wpos, wlen, none_bps(f))

(***************************************************************************)
(* wav64_vadpcm.c                                                          *)
(***************************************************************************)
\* Bytes of one 16-sample frame of all channels in the file.
vadpcm_group_bytes(f) == VADPCM_FRAME_BYTES * f.channels

\* Bits of one Huffman-compressed 16-sample frame of all channels.
huff_group_bits(f) == f.hbits * f.channels

\* The bit position the converter stores in a skip point
\* (conv_wav64.cpp: zero unless the stream is Huffman-compressed).
skip_bitpos(f, offset) ==
    IF f.huff THEN huff_group_bits(f) * (offset \div VADPCM_FRAME_SAMPLES)
    ELSE 0

\* The 16-sample frame index the bytes at file offset off begin, -1 if the
\* offset is not the start of a frame of the first channel.
vadpcm_group_at(f, off) ==
    IF off >= f.base /\ (off - f.base) % vadpcm_group_bytes(f) = 0
    THEN (off - f.base) \div vadpcm_group_bytes(f) ELSE -1

huff_group_at(f, bitpos) ==
    IF bitpos % huff_group_bits(f) = 0
    THEN bitpos \div huff_group_bits(f) ELSE -1

\* Bytes of compressed data in a non-Huffman file (padded to 32 samples).
vadpcm_data_bytes(f) ==
    vadpcm_group_bytes(f) * (ROUND_UP(f.len, 32) \div VADPCM_FRAME_SAMPLES)

\* The prologue as it would be if a seek needed no skip point: the state
\* is cleared and the descriptor positioned from wpos alone.
vadpcm_position_reset(f, w, wpos, seeking) ==
    IF seeking
    THEN [w_job(w_lseek(w, f.base + (wpos \div 16) * VADPCM_FRAME_BYTES))
            EXCEPT !.tag = 0, !.seektag = 0, !.bitpos = 0]
    ELSE IF ~f.huff
    THEN w_lseek(w, f.base + (wpos \div 16) * VADPCM_FRAME_BYTES)
    ELSE w

\* The same prologue if a skip point restored the predictor state only,
\* leaving the voice's bit position where the last read left it.
vadpcm_position_keepbit(f, w, wpos, seeking) ==
    IF ~(w.buf.state_size >= SIZEOF_STATE_VADPCM)
    THEN Fail(w, "vadpcm_state_size")
    ELSE IF seeking
    THEN IF wpos = 0
         THEN [w_job(w_lseek(w, f.base)) EXCEPT !.tag = 0, !.seektag = 0]
         ELSE IF wpos \in f.skips
         THEN CHOOSE r \in
                {IF f.huff THEN w1
                 ELSE w_lseek(w1, f.base
                        + (wpos \div 16) * VADPCM_FRAME_BYTES) :
                 w1 \in {[w_job(w) EXCEPT
                           !.tag = wpos \div VADPCM_FRAME_SAMPLES,
                           !.seektag = wpos \div VADPCM_FRAME_SAMPLES]}} :
                TRUE
         ELSE Fail(w, "vadpcm_seek_point")
    ELSE IF (wpos % 16) # 0 THEN Fail(w, "vadpcm_wpos_align")
    ELSE IF ~f.huff
    THEN w_lseek(w, f.base + (wpos \div 16) * VADPCM_FRAME_BYTES)
    ELSE w

\* The seeking / non-seeking prologue of waveform_vadpcm_read
\* (wav64_vadpcm.c:209-245).
vadpcm_position(f, w, wpos, seeking) ==
    IF ~(w.buf.state_size >= SIZEOF_STATE_VADPCM)
    THEN Fail(w, "vadpcm_state_size")
    ELSE IF seeking
    THEN IF wpos = 0
         THEN [w_job(w_lseek(w, f.base)) EXCEPT
                  !.tag = 0, !.seektag = 0, !.bitpos = 0]
         ELSE IF wpos \in f.skips
         THEN CHOOSE r \in
                {IF f.huff THEN w1
                 ELSE w_lseek(w1, f.base
                        + (wpos \div 16) * VADPCM_FRAME_BYTES) :
                 w1 \in {[w_job(w) EXCEPT
                           !.bitpos = skip_bitpos(f, wpos),
                           !.tag = wpos \div VADPCM_FRAME_SAMPLES,
                           !.seektag = wpos \div VADPCM_FRAME_SAMPLES]}} :
                TRUE
         ELSE Fail(w, "vadpcm_seek_point")
    ELSE IF (wpos % 16) # 0 THEN Fail(w, "vadpcm_wpos_align")
    ELSE IF ~f.huff
    THEN w_lseek(w, f.base + (wpos \div 16) * VADPCM_FRAME_BYTES)
    ELSE w

\* huffv_decompress: seeks to the voice's bit position, reads slen bytes
\* and expands len bytes of VADPCM frames; [w, g0] with g0 the frame index
\* the expanded bytes begin.
huffv_decompress(f, w, len, slen) ==
    [w  |-> [w_read(w_lseek(w, f.base + (w.bitpos \div 8)), slen) EXCEPT
               !.bitpos = @ + f.hbits * (len \div VADPCM_FRAME_BYTES)],
     g0 |-> huff_group_at(f, w.bitpos)]

\* One iteration of the decoding loop after its samplebuffer_append
\* (wav64_vadpcm.c:269-323); a is the world append() left.
vadpcm_chunk(f, a, wpos, nframes) ==
    IF a.err # "" THEN a
    ELSE
    CHOOSE r \in
      {IF in.w.err # "" THEN in.w
       ELSE [w_job(in.w) EXCEPT
               !.tag = IF in.g0 >= 0 /\ a.tag = in.g0
                       THEN in.g0 + nframes ELSE -1,
               !.log = Append(@, Extent(wpos, 16 * nframes,
                          IF in.g0 >= 0 /\ a.tag = in.g0
                          THEN 16 * in.g0 ELSE -1,
                          a.data, 16 * nframes * 2 * f.channels))] :
       in \in
         {IF f.huff
          THEN huffv_decompress(f, a, src_bytes,
                  ROUND_UP((Shl(nframes * 16, SAMPLES_BPS_SHIFT(a.buf))
                            - src_bytes) \div 2, 16))
          ELSE [w  |-> IF a.fd + src_bytes
                          > f.base + vadpcm_data_bytes(f)
                       THEN Fail(w_read(a, src_bytes), "vadpcm_read_past_end")
                       ELSE w_read(a, src_bytes),
                g0 |-> vadpcm_group_at(f, a.fd)] :
          src_bytes \in {VADPCM_FRAME_BYTES * nframes * f.channels}}} : TRUE

\* The decoding loop (wav64_vadpcm.c:258-324).
RECURSIVE vadpcm_chunks(_, _, _, _)
vadpcm_chunks(f, w, wpos, wlen) ==
    IF wlen <= 0 \/ w.err # "" THEN [w EXCEPT !.endpos = wpos]
    ELSE CHOOSE r \in
           {vadpcm_chunks(f, vadpcm_chunk(f, w_append(w, nframes * 16),
                                          wpos, nframes),
                          wpos + 16 * nframes, wlen - 16 * nframes) :
            nframes \in {Min(wlen \div 16,
                             IF f.channels = 1 THEN MAX_VADPCM_FRAMES
                             ELSE MAX_VADPCM_FRAMES \div 2)}} : TRUE

\* The same epilogue without its rspq_highpri_sync.
vadpcm_loop_end_nosync(f, w) ==
    IF w.err = "" /\ f.loop_len # 0 /\ w.endpos > f.len
    THEN w_undo(w, w.endpos - f.len)
    ELSE w

\* The same epilogue retracting one 16-sample frame less than the excess.
vadpcm_loop_end_short(f, w) ==
    IF w.err = "" /\ f.loop_len # 0 /\ w.endpos > f.len
    THEN CHOOSE r \in {IF u.err # "" THEN u ELSE w_sync(u) :
                       u \in {w_undo(w, Max(w.endpos - f.len - 16, 0))}} :
                TRUE
    ELSE w

\* The loop-end epilogue (wav64_vadpcm.c:329-343).
vadpcm_loop_end(f, w) ==
    IF w.err = "" /\ f.loop_len # 0 /\ w.endpos > f.len
    THEN CHOOSE r \in {IF u.err # "" THEN u ELSE w_sync(u) :
                       u \in {w_undo(w, w.endpos - f.len)}} : TRUE
    ELSE w

waveform_vadpcm_read(f, w, wpos, wlen, seeking) ==
    CHOOSE r \in
      {IF p.err # "" \/ ROUND_UP(wlen, 32) = 0 THEN p
       ELSE vadpcm_loop_end(f, vadpcm_chunks(f, p, wpos, ROUND_UP(wlen, 32))) :
       p \in {vadpcm_position(f, w, wpos, seeking)}} : TRUE

(***************************************************************************)
(* wav64_opus.c.  Every stored frame (16-bit length plus payload padded to *)
(* 2 bytes) takes f.obytes bytes in the file; the decoder state is the tag *)
(* k of "the state after decoding k frames".                               *)
(***************************************************************************)
DIVIDE_CEIL(n, d) == (n + d - 1) \div d

opus_data_bytes(f) == f.obytes * DIVIDE_CEIL(f.len, f.frame_size)

opus_frame_at(f, off) ==
    IF off >= f.base /\ (off - f.base) % f.obytes = 0
    THEN (off - f.base) \div f.obytes ELSE -1

\* The frame loop (wav64_opus.c:89-115); out is the byte offset of `out`.
RECURSIVE opus_frames(_, _, _, _, _)
opus_frames(f, w, wpos, out, nframes) ==
    IF nframes = 0 \/ w.err # "" THEN [w EXCEPT !.endpos = wpos]
    ELSE IF ~(wpos < f.len) THEN Fail(w, "opus_wpos_past_len")
    ELSE IF w.fd + f.obytes > f.base + opus_data_bytes(f)
    THEN Fail(w_read(w, f.obytes), "opus_read_past_end")
    ELSE CHOOSE r \in
           {opus_frames(f,
               [w_read(w, f.obytes) EXCEPT
                  !.tag = IF good THEN w.tag + 1 ELSE -1,
                  !.log = Append(@, Extent(wpos, f.frame_size,
                             IF good THEN f.frame_size * w.tag ELSE -1,
                             out, f.frame_size * f.channels * 2))],
               wpos + f.frame_size,
               out + f.frame_size * f.channels * 2,
               nframes - 1) :
            good \in {w.tag >= 0 /\ opus_frame_at(f, w.fd) = w.tag}} : TRUE

opus_loop_end(f, w) ==
    IF w.err = "" /\ f.loop_len # 0 /\ w.endpos >= f.len
    THEN IF f.loop_len # f.len THEN Fail(w, "opus_loop_len")
         ELSE w_undo(w, w.endpos - f.len)
    ELSE w

waveform_opus_read(f, w, wpos, wlen, seeking) ==
    CHOOSE r \in
      {IF a.err # "" THEN a
       ELSE opus_loop_end(f, opus_frames(f, a, wpos, a.data,
                                         DIVIDE_CEIL(wlen, f.frame_size))) :
       a \in {IF seeking /\ wpos # 0 THEN Fail(w, "opus_seek")
              ELSE w_append(IF seeking
                            THEN [w_lseek(w, f.base) EXCEPT !.tag = 0]
                            ELSE w,
                            f.frame_size * DIVIDE_CEIL(wlen, f.frame_size))}} :
      TRUE

(***************************************************************************)
(* The callback a waveform of each format is bound to (wave.read), and     *)
(* samplebuffer_get driving it.                                            *)
(***************************************************************************)
wave_read(f, w, wpos, wlen, seeking) ==
    IF f.format = WAV64_FORMAT_RAW
    THEN wav64_none_read(f, EnterRead(w), wpos, wlen, seeking)
    ELSE IF f.format = WAV64_FORMAT_VADPCM
    THEN waveform_vadpcm_read(f, EnterRead(w), wpos, wlen, seeking)
    ELSE waveform_opus_read(f, EnterRead(w), wpos, wlen, seeking)

\* samplebuffer_get(&w.buf, wpos, &wlen) with wave.read bound to the
\* file's codec: [w, obs]; obs is the observation record of the call.
w_get(f, w, wpos, wlen) ==
    CHOOSE r \in
      {IF p.err # ""
       THEN [w |-> Fail([w EXCEPT !.buf = p.buf], p.err),
             obs |-> [NoObs EXCEPT !.op = "get", !.wpos = wpos, !.req = wlen]]
       ELSE CHOOSE q \in
         {IF c.err # ""
          THEN [w |-> c,
                obs |-> [NoObs EXCEPT !.op = "get", !.wpos = wpos,
                           !.req = wlen, !.called = p.call,
                           !.rdpos = p.rdpos, !.rdlen = p.rdlen,
                           !.seeking = p.seeking]]
          ELSE CHOOSE s \in
            {[w |-> [c EXCEPT !.buf = g.buf, !.err = g.err],
              obs |-> [NoObs EXCEPT !.op = "get", !.wpos = wpos,
                         !.req = wlen, !.called = p.call,
                         !.rdpos = p.rdpos, !.rdlen = p.rdlen,
                         !.seeking = p.seeking, !.data = c.data,
                         !.got = c.buf.widx - p.buf.widx,
                         !.wlen = g.wlen, !.ret = g.ret]] :
             g \in {get_finish(c.buf, wpos, wlen, p.call)}} : TRUE :
          c \in {IF p.call
                 THEN wave_read(f, [w EXCEPT !.buf = p.buf],
                                p.rdpos, p.rdlen, p.seeking)
                 ELSE EnterRead([w EXCEPT !.buf = p.buf])}} : TRUE :
       p \in {get_plan(w.buf, wpos, wlen)}} : TRUE

Init ==
    /\ \E w \in 1..MaxRegionWords, bits \in {8, 16, 32} :
          buf = samplebuffer_set_bps(samplebuffer_init(0, 8 * w, 0), bits).buf
    /\ err = ""
    /\ last = NoObs
    /\ wav = NoWav
    /\ cod = NoCod

\* What the generic callback may do when asked for rdlen frames: append up to
\* rdlen + MaxExtra frames, then retract up to MaxUndo of them.
CallbackScripts(rdlen) ==
    {<<k, u>> : k \in 0..(rdlen + MaxExtra), u \in 0..MaxUndo}

DoGet(wpos, wlen) ==
    /\ err = ""
    /\ UNCHANGED <<wav, cod>>
    /\ \E p \in {get_plan(buf, wpos, wlen)} :
       \E s \in (IF p.call THEN CallbackScripts(p.rdlen) ELSE {<<0, 0>>}) :
          /\ s[2] <= s[1]
          /\ \E c \in {IF p.call THEN generic_read(p.buf, s[1], s[2])
                        ELSE [buf |-> p.buf, data |-> -1, err |-> p.err]} :
             \E f \in {IF c.err = ""
                        THEN get_finish(c.buf, wpos, wlen, p.call)
                        ELSE [buf |-> c.buf, ret |-> -1, wlen |-> wlen,
                              err |-> c.err]} :
                /\ buf' = f.buf
                /\ err' = f.err
                /\ last' = [op |-> "get", data |-> c.data, called |-> p.call,
                            rdpos |-> p.rdpos, rdlen |-> p.rdlen,
                            seeking |-> p.seeking,
                            got |-> IF p.call THEN s[1] - s[2] ELSE 0,
                            req |-> wlen, wpos |-> wpos, wlen |-> f.wlen,
                            ret |-> f.ret]

DoAppend(wlen) ==
    /\ err = ""
    /\ UNCHANGED <<wav, cod>>
    /\ LET a == samplebuffer_append(buf, wlen)
       IN /\ buf' = a.buf
          /\ err' = a.err
          /\ last' = [NoObs EXCEPT !.op = "append", !.data = a.data,
                                   !.req = wlen]

DoUndo(wlen) ==
    /\ err = ""
    /\ UNCHANGED <<wav, cod>>
    /\ LET r == samplebuffer_undo(buf, wlen)
       IN /\ buf' = r.buf
          /\ err' = r.err
          /\ last' = [NoObs EXCEPT !.op = "undo", !.req = wlen]

DoDiscard(wpos) ==
    /\ err = ""
    /\ UNCHANGED <<wav, cod>>
    /\ buf' = samplebuffer_discard(buf, wpos)
    /\ err' = ""
    /\ last' = [NoObs EXCEPT !.op = "discard", !.wpos = wpos]

DoFlush ==
    /\ err = ""
    /\ UNCHANGED <<wav, cod>>
    /\ buf' = samplebuffer_flush(buf)
    /\ err' = ""
    /\ last' = [NoObs EXCEPT !.op = "flush"]

Next ==
    \/ \E wpos \in 0..MaxPos, wlen \in 1..MaxLen : DoGet(wpos, wlen)
    \/ \E wlen \in 1..MaxLen : DoAppend(wlen)
    \/ \E wlen \in 1..MaxLen : DoUndo(wlen)
    \/ \E wpos \in 0..(MaxPos + MaxLen) : DoDiscard(wpos)
    \/ DoFlush

Spec == Init /\ [][Next]_vars

(***************************************************************************)
(* Streaming: the voices of one WAV64 file, each with its own sample       *)
(* buffer and codec state, reading through one shared file descriptor and  *)
(* one RSP queue.  A voice's buffer is set up with either the sample width *)
(* (as wav64.c:206 does) or the width of a whole frame of all channels     *)
(* (what wav64.c:71 and wav64_vadpcm.c:270 compute with).                  *)
(***************************************************************************)
MaxGroups == 3          \* streams of up to 16 * MaxGroups samples
NumVoices == 2
VoiceBytes == 512       \* bytes of a voice's sample region

Voices == 1..NumVoices

CodecLens == {16 * g : g \in 2..MaxGroups}

CodecFiles ==
    {[format |-> fm, channels |-> ch, bits |-> bits, len |-> len,
      loop_len |-> loop, huff |-> hf, hbits |-> 40, skips |-> sk,
      base |-> 64, frame_size |-> 16, obytes |-> 10,
      state_size |-> IF fm = WAV64_FORMAT_VADPCM
                     THEN SIZEOF_STATE_VADPCM
                     ELSE IF fm = WAV64_FORMAT_OPUS THEN 64 ELSE 0] :
        fm \in {WAV64_FORMAT_RAW, WAV64_FORMAT_VADPCM, WAV64_FORMAT_OPUS},
        ch \in {1, 2}, bits \in {8, 16}, len \in CodecLens,
        loop \in {0} \cup CodecLens, hf \in BOOLEAN,
        sk \in {{}, {0}, {32}, {0, 32}}}

\* The files audioconv64 writes: compressed formats hold 16-bit samples,
\* only VADPCM has a Huffman flag and skip points, a loop spans the whole
\* stream here, and a looping VADPCM stream has its loop start as a skip
\* point (conv_wav64.cpp:268).
WellFormed(f) ==
    /\ f.format # WAV64_FORMAT_RAW => f.bits = 16
    /\ f.format # WAV64_FORMAT_VADPCM => (~f.huff /\ f.skips = {})
    /\ f.loop_len \in {0, f.len}
    /\ \A s \in f.skips : s < f.len
    /\ f.format = WAV64_FORMAT_VADPCM => (0 \in f.skips <=> f.loop_len # 0)

NoAux ==
    [seekoff |-> -1, readoff |-> -1, preseek |-> FALSE, seektag |-> -2,
     endpos |-> -1, undone |-> 0, mine |-> 0, log |-> <<>>]

\* A voice before its first access.
NewVoice(f, bits_per_sample) ==
    [buf |-> samplebuffer_set_bps(
                samplebuffer_init(0, VoiceBytes, f.state_size),
                bits_per_sample).buf,
     bitpos |-> 0, tag |-> -1, obs |-> NoObs, x |-> NoAux, err |-> "",
     first |-> FALSE, consec |-> FALSE]

\* The log of decoding the whole stream with one read from sample 0 into a
\* buffer that holds all of it.
OnePass(f) ==
    wave_read(f,
        NewWorld(samplebuffer_set_bps(
                    samplebuffer_init(0, 8 * (f.len + 64), f.state_size),
                    f.bits * f.channels).buf, f.base),
        0, f.len, TRUE).log

\* The identity held for logical frame i by the extents of a log: -2 when
\* no extent covers i, the last extent covering it otherwise.
IdentAt(log, i) ==
    LET hits == {k \in 1..Len(log) :
                    log[k].wpos <= i /\ i < log[k].wpos + log[k].n}
    IN IF hits = {} THEN -2
       ELSE CHOOSE r \in {IF e.src < 0 THEN -1 ELSE e.src + (i - e.wpos) :
                          e \in {log[CHOOSE k \in hits :
                                        \A j \in hits : j <= k]}} : TRUE

InitCodec ==
    /\ buf = samplebuffer_init(0, 8, 0)
    /\ err = ""
    /\ last = NoObs
    /\ wav = NoWav
    /\ \E f \in CodecFiles, wide \in BOOLEAN :
         /\ WellFormed(f)
         /\ cod = [pc |-> "run", f |-> f, fd |-> 0, rspq |-> 0,
                   ref |-> OnePass(f),
                   v |-> [v \in Voices |->
                            NewVoice(f, IF wide THEN f.bits * f.channels
                                        ELSE f.bits)]]

WorldOf(v) ==
    [NewWorld(cod.v[v].buf, cod.fd) EXCEPT
        !.bitpos = cod.v[v].bitpos, !.tag = cod.v[v].tag,
        !.rspq = cod.rspq]

\* The mixer asks voice v for wlen frames at wpos: samplebuffer_get with
\* the file's read callback.
VoiceGet(v, wpos, wlen) ==
    /\ err = ""
    /\ cod.pc = "run"
    /\ wpos + wlen <= cod.f.len
    /\ \E r \in {w_get(cod.f, WorldOf(v), wpos, wlen)} :
         /\ cod' = [cod EXCEPT
               !.fd = r.w.fd,
               !.rspq = r.w.rspq,
               !.v[v] = [buf |-> r.w.buf, bitpos |-> r.w.bitpos,
                         tag |-> r.w.tag, obs |-> r.obs,
                         x |-> [k \in DOMAIN NoAux |-> r.w[k]],
                         err |-> r.w.err,
                         first |-> cod.v[v].obs.op = "init",
                         consec |-> IF ~r.obs.called THEN @.consec
                                    ELSE IF r.obs.seeking
                                    THEN r.obs.rdpos = 0
                                    ELSE @.consec]]
         /\ err' = r.w.err
    /\ UNCHANGED <<buf, last, wav>>

\* The RSP completes the oldest pending job.
RspRun ==
    /\ err = ""
    /\ cod.pc = "run"
    /\ cod.rspq > 0
    /\ cod' = [cod EXCEPT !.rspq = @ - 1]
    /\ UNCHANGED <<buf, err, last, wav>>

NextCodec ==
    \/ \E v \in Voices, g \in 0..(MaxGroups - 1), n \in 1..2 :
          VoiceGet(v, 16 * g, 16 * n)
    \/ RspRun

SpecCodec == InitCodec /\ [][NextCodec]_vars


(***************************************************************************)
(* wav64.c: internal_open and wav64_close.                                 *)
(*                                                                         *)
(* The heap block of a wav64_t is the byte range [0, heap_size); the       *)
(* request h of an open is [f, preload, wav_null, namelen,                 *)
(* sizeof_waveform, start, owned, registered]: the file (its header        *)
(* fields), parms->streaming_mode == WAV64_STREAMING_NONE, whether the     *)
(* caller passed no wav64_t, the length of the file name, the size of      *)
(* waveform_t (mixer.h), the descriptor's position at the call, whether    *)
(* the descriptor is opened here, and the formats wav64_init_compression   *)
(* made available.  The header's format field is an int8_t: a byte of     *)
(* 0x80 and above is a negative index into algos[], and oob_init is what   *)
(* the init slot read there holds ("null" or "junk").                      *)
(***************************************************************************)
SIZEOF_WAV64_HEADER == 28
SIZEOF_WAV64_STATE == 28
PRELOAD_EXTRA == 4096

\* algos[format].init != NULL (wav64.c:44-57, 297-304)
algo_registered(format, registered) ==
    format \in {WAV64_FORMAT_RAW, WAV64_FORMAT_VADPCM} \cup registered

\* The caller's wav64_t and the heap block as internal_open leaves them
\* when the init pointer it calls (wav64.c:196) was read from in front of
\* algos[]: lines 169-193 have run.
WildWav(h) == [pc |-> "wild", h |-> h]

\* The heap layout (wav64.c:141-163).
heap_layout(h) ==
    LET preload_size == ROUND_UP(h.f.len * h.f.channels
                                 * Shr(h.f.bits, 3), 16)
        preload_extra_alloc ==
            ROUND_UP(IF h.f.format = WAV64_FORMAT_RAW THEN 0
                     ELSE PRELOAD_EXTRA, 16)
        off_waveform == ROUND_UP(SIZEOF_WAV64_STATE, 16)
        off_name == off_waveform
                    + (IF h.wav_null THEN ROUND_UP(h.sizeof_waveform, 16)
                       ELSE 0)
        off_samples == off_name + ROUND_UP(h.namelen + 1, 16)
        off_preload_end == off_samples
                           + (IF h.preload THEN preload_size ELSE 0)
        off_ext == off_preload_end
                   + (IF h.preload THEN preload_extra_alloc ELSE 0)
    IN [preload_size |-> preload_size,
        preload_extra_alloc |-> preload_extra_alloc,
        heap_off_waveform |-> off_waveform,
        heap_off_name |-> off_name,
        heap_off_samples |-> off_samples,
        heap_off_preload_end |-> off_preload_end,
        heap_off_ext |-> off_ext,
        heap_size |-> off_ext + ROUND_UP(h.f.ext_size, 16)]

\* algos[format].init: the name of the read callback it installs, or the
\* assertion it fails (wav64.c:88-95, wav64_vadpcm.c:376-398,
\* wav64_opus.c:123-135).
algo_init(f, samples) ==
    IF f.format = WAV64_FORMAT_RAW
    THEN [read |-> IF samples = -1 THEN "wav64_none_read"
                   ELSE "wav64_none_read_memcopy", err |-> ""]
    ELSE IF f.format = WAV64_FORMAT_VADPCM
    THEN IF f.state_size # SIZEOF_STATE_VADPCM
         THEN [read |-> "", err |-> "vadpcm_init_state_size"]
         ELSE [read |-> "waveform_vadpcm_read", err |-> ""]
    ELSE IF ~(f.state_size >= f.opus_dec_size)
    THEN [read |-> "", err |-> "opus_init_state_size"]
    ELSE [read |-> "waveform_opus_read", err |-> ""]

\* The temporary sample buffer of the preload step (wav64.c:204-206).
preload_sbuf(h, lay) ==
    samplebuffer_set_bps(
        samplebuffer_init(lay.heap_off_samples,
                          lay.preload_size + lay.preload_extra_alloc,
                          h.f.state_size),
        h.f.bits).buf

\* The preload step (wav64.c:207-210): one get of the whole waveform
\* through the file's read callback, one sync, and the length check.
preload_get(h, lay) ==
    CHOOSE r \in
      {IF g.w.err = "" /\ g.obs.wlen # h.f.len
       THEN Fail(w_sync(g.w), "open_preload_failed")
       ELSE IF g.w.err = "" THEN w_sync(g.w) ELSE g.w :
       g \in {w_get(h.f, NewWorld(preload_sbuf(h, lay), h.f.base),
                    0, h.f.len)}} : TRUE

ClosedWav(h) == [pc |-> "closed", h |-> h]

\* internal_open: [wav, err]
internal_open(h) ==
    IF ~(h.f.format < WAV64_NUM_FORMATS)
    THEN [wav |-> ClosedWav(h), err |-> "open_unknown_format"]
    ELSE IF h.f.format < 0
    THEN IF h.oob_init = "null"
         THEN [wav |-> ClosedWav(h), err |-> "open_format_not_initialized"]
         ELSE [wav |-> WildWav(h), err |-> "open_init_wild_call"]
    ELSE IF ~algo_registered(h.f.format, h.registered)
    THEN [wav |-> ClosedWav(h), err |-> "open_format_not_initialized"]
    ELSE
    CHOOSE r \in
      {IF i1.err # ""
       THEN [wav |-> ClosedWav(h), err |-> i1.err]
       ELSE IF ~h.preload
       THEN [wav |-> [pc |-> "open", h |-> h, lay |-> lay,
                      heap_size |-> lay.heap_size,
                      st |-> [format |-> h.f.format,
                              ext |-> lay.heap_off_ext, samples |-> -1,
                              current_fd |-> 3,
                              base_offset |-> h.f.base,
                              flags |-> IF h.owned THEN 1 ELSE 0],
                      loop_len |-> h.f.loop_len,
                      read |-> i1.read, preloaded |-> FALSE,
                      sbuf |-> samplebuffer_init(0, 0, 0), img |-> <<>>,
                      pending |-> 0, fd_open |-> TRUE,
                      playing |-> {}, trace |-> <<>>],
             err |-> ""]
       ELSE CHOOSE q \in
         {[wav |-> [pc |-> "open", h |-> h, lay |-> lay,
                    heap_size |-> lay.heap_off_preload_end,
                    st |-> [format |-> WAV64_FORMAT_RAW, ext |-> -1,
                            samples |-> lay.heap_off_samples,
                            current_fd |-> 3,
                            base_offset |-> h.f.base,
                            flags |-> IF h.owned THEN 1 ELSE 0],
                    loop_len |-> h.f.loop_len,
                    read |-> "wav64_none_read_memcopy",
                    preloaded |-> TRUE,
                    sbuf |-> preload_sbuf(h, lay), img |-> p.log,
                    pending |-> p.rspq, fd_open |-> TRUE,
                    playing |-> {}, trace |-> <<>>],
           err |-> p.err] :
          p \in {preload_get(h, lay)}} : TRUE :
       lay \in {heap_layout(h)}, i1 \in {algo_init(h.f, -1)}} : TRUE

\* The mixer binds waveforms to channels: w.playing is the set of channels
\* whose waveform is this one (mixer_ch_playing_waveform(ch) == &wav->wave).
MaxChannels == 2

mixer_ch_playing_this(w, ch) == ch \in w.playing

mixer_ch_play(w, ch) == [w EXCEPT !.playing = @ \cup {ch}]

\* wav64_play (wav64.c:243-246)
wav64_play(w, ch) == mixer_ch_play(w, ch)

\* A step of wav64_close, recorded with the channels still playing the
\* waveform and the state of the descriptor when the step has run.
CloseEvent(w, op) ==
    [w EXCEPT !.trace = Append(@, [op |-> op, playing |-> w.playing,
                                   fd_open |-> w.fd_open])]

mixer_ch_stop(w, ch) ==
    CloseEvent([w EXCEPT !.playing = @ \ {ch}], "mixer_ch_stop")

\* wav64_close leaving the mixer alone.
close_keep_channels(w, i) == w

\* The channel loop of wav64_close from channel i on (wav64.c:277-280).
RECURSIVE close_stop_channels(_, _)
close_stop_channels(w, i) ==
    IF i >= MaxChannels THEN w
    ELSE close_stop_channels(IF mixer_ch_playing_this(w, i)
                             THEN mixer_ch_stop(w, i) ELSE w, i + 1)

\* algos[format].close, if the format has one (wav64.c:282-283; VADPCM and
\* Opus do, wav64.c:52-56 and 299-303).
close_hook(w) ==
    IF w.st.format \in {WAV64_FORMAT_VADPCM, WAV64_FORMAT_OPUS}
    THEN CloseEvent(w, "close_hook") ELSE w

\* The descriptor closed whoever opened it.
close_fd_always(w) ==
    IF w.st.current_fd >= 0
    THEN CloseEvent([w EXCEPT !.fd_open = FALSE, !.st.current_fd = -1],
                    "close")
    ELSE w

\* wav64.c:285-288
close_fd(w) ==
    IF w.st.current_fd >= 0 /\ w.st.flags = 1
    THEN CloseEvent([w EXCEPT !.fd_open = FALSE, !.st.current_fd = -1],
                    "close")
    ELSE w

\* wav64_close (wav64.c:265-294)
wav64_close(w) ==
    IF w.pc # "open" THEN w
    ELSE CHOOSE r \in
           {[CloseEvent(c, "free") EXCEPT !.pc = "freed", !.heap_size = 0] :
            c \in {close_fd(close_hook(close_stop_channels(w, 0)))}} : TRUE

\* wav64_set_loop (wav64.c:248-257)
wav64_set_loop(w, loop) ==
    CHOOSE r \in
      {[w EXCEPT !.loop_len = IF w.h.f.bits = 8 /\ l % 2 = 1
                              THEN l - 1 ELSE l] :
       l \in {IF loop THEN w.h.f.len ELSE 0}} : TRUE

LongLen == 16 * (MAX_VADPCM_FRAMES \div 2 + 1)

\* Stream lengths: whole VADPCM frames, one too long for a single decoding
\* chunk, and an odd one (17 samples) for uncompressed files.
OpenLens == {16 * g : g \in 2..MaxGroups} \cup {LongLen} \cup {17}

\* Bytes of the extended header of a file (conv_wav64.cpp:345-366 for
\* VADPCM: header, codebook of 4 x 2 vectors per channel, skip points).
ext_size_of(fm, ch, sk) ==
    IF fm = WAV64_FORMAT_VADPCM
    THEN SIZEOF_HEADER_VADPCM + 16 * 8 * ch + 40 * Cardinality(sk)
    ELSE IF fm = WAV64_FORMAT_OPUS THEN 16 ELSE 0

OpenRequests ==
    {[f |-> [format |-> fm, channels |-> ch, bits |-> bits, len |-> len,
             loop_len |-> loop, huff |-> hf, hbits |-> 40, skips |-> sk,
             base |-> st + SIZEOF_WAV64_HEADER + ext_size_of(fm, ch, sk),
             frame_size |-> 640, obytes |-> 10, opus_dec_size |-> 64,
             ext_size |-> ext_size_of(fm, ch, sk),
             state_size |-> IF fm = WAV64_FORMAT_VADPCM
                            THEN SIZEOF_STATE_VADPCM
                            ELSE IF fm = WAV64_FORMAT_OPUS THEN 64 ELSE 0],
       preload |-> pre, wav_null |-> wn, namelen |-> 12,
       sizeof_waveform |-> 36, start |-> st,
       owned |-> st = 0, registered |-> reg,
       oob_init |-> IF fm < 0 /\ junk THEN "junk" ELSE "null"] :
        junk \in BOOLEAN, fm \in -1..WAV64_NUM_FORMATS, ch \in {1, 2}, bits \in {8, 16},
        len \in OpenLens, loop \in {0} \cup OpenLens, hf \in BOOLEAN,
        sk \in {{}, {0}}, pre \in BOOLEAN, wn \in BOOLEAN,
        st \in {0, 100}, reg \in {{}, {WAV64_FORMAT_OPUS}}}

InitOpen ==
    /\ buf = samplebuffer_init(0, 8, 0)
    /\ err = ""
    /\ last = NoObs
    /\ cod = NoCod
    /\ \E h \in OpenRequests :
         /\ WellFormed(h.f)
         /\ h.f.len % 16 # 0 => h.f.format = WAV64_FORMAT_RAW
         /\ wav = ClosedWav(h)

\* What a preloading open can come to because the state area of its
\* temporary buffer is the start of the extension header (state ==
\* heap_off_ext) and nothing initialises the codec state before the get:
\*   "garbage" the decode ran with a clobbered header or decoder (Huffman
\*             flag and tables of a VADPCM header overwritten with predictor
\*             state; an Opus decoder waveform_opus_start never set up);
\*   "crash"   the VADPCM close hook frees the overwritten huff_tbl pointer
\*             (wav64.c:213-214, wav64_vadpcm.c:400-407).
\* Which of them the hardware produces depends on what the CPU cache still
\* holds of the header when the RSP has written over it.
PreloadOutcomes(h) ==
    {"clean"}
    \cup (IF h.preload /\ (h.f.format = WAV64_FORMAT_OPUS
                           \/ (h.f.format = WAV64_FORMAT_VADPCM /\ h.f.huff))
          THEN {"garbage"} ELSE {})
    \cup (IF h.preload /\ h.f.format = WAV64_FORMAT_VADPCM
          THEN {"crash"} ELSE {})

\* wav64_open / wav64_load / wav64_loadfd.
DoOpen ==
    /\ err = ""
    /\ wav.pc = "closed"
    /\ \E r \in {internal_open(wav.h)}, ub \in PreloadOutcomes(wav.h) :
         /\ wav' = IF ub = "garbage" /\ r.wav.pc = "open"
                   THEN [r.wav EXCEPT !.img =
                           [k \in DOMAIN @ |-> [@[k] EXCEPT !.src = -1]]]
                   ELSE r.wav
         /\ err' = IF ub = "crash" /\ r.err = ""
                   THEN "vadpcm_close_clobbered_header" ELSE r.err
    /\ UNCHANGED <<buf, last, cod>>

DoClose ==
    /\ err = ""
    /\ wav.pc = "open"
    /\ wav' = wav64_close(wav)
    /\ UNCHANGED <<buf, err, last, cod>>

DoSetLoop(loop) ==
    /\ err = ""
    /\ wav.pc = "open"
    /\ wav' = wav64_set_loop(wav, loop)
    /\ UNCHANGED <<buf, err, last, cod>>

DoPlay(ch) ==
    /\ err = ""
    /\ wav.pc = "open"
    /\ wav' = wav64_play(wav, ch)
    /\ UNCHANGED <<buf, err, last, cod>>

NextOpen ==
    \/ DoOpen
    \/ DoClose
    \/ \E ch \in 0..(MaxChannels - 1) : DoPlay(ch)
    \/ \E loop \in BOOLEAN : DoSetLoop(loop)

SpecOpen == InitOpen /\ [][NextOpen]_vars


(***************************************************************************)
(* Claims about the sample buffer, checked under Spec.                     *)
(***************************************************************************)

\* C1: after any sequence of sample-buffer operations that fails no
\* assertion, 0 <= ridx <= widx <= size.
C1_CursorsOrdered ==
    err = "" => (0 <= buf.ridx /\ buf.ridx <= buf.widx /\ buf.widx <= buf.size)

\* C2: every pointer append hands out (called directly or by a read
\* callback inside get) is at a byte offset that is a multiple of 8.
C2_AppendAligned ==
    last.data # -1 => last.data % 8 = 0

\* A get whose read callback ran to its end and appended fewer frames than
\* it was asked for.
CallbackErrs ==
    {"append_consistency", "append_wpos_odd", "append_too_small", "undo_wlen"}

ShortRead ==
    /\ last.op = "get"
    /\ last.called
    /\ last.got < last.rdlen
    /\ err \notin CallbackErrs

\* Frames resident from the requested position onward.
Resident == buf.wpos + buf.widx - last.wpos

\* C3 (as claimed): a read callback that appends fewer frames than requested,
\* down to zero frames, is not an error: get returns normally with *wlen
\* reduced to the number of frames resident from wpos onward.
C3_ShortReadNeverFails ==
    ShortRead => (err = "" /\ last.wlen = Min(last.req, Resident))

\* C3 (amended): a short read is not an error exactly when it leaves at
\* least one frame resident at wpos; get then returns the pointer to wpos
\* with *wlen reduced to the resident count, and otherwise fails its
\* "logic error" assertion.
C3_ShortReadAmended ==
    ShortRead =>
        IF last.wpos >= buf.wpos /\ Resident >= 1
        THEN /\ err = ""
             /\ last.wlen = Min(last.req, Resident)
             /\ last.ret = buf.ptr + Shl(last.wpos - buf.wpos, buf.bps)
        ELSE err = "get_logic_error"

\* A short read after which get returned normally with a reduced *wlen.
C3_Witness ==
    /\ ShortRead
    /\ err = ""
    /\ last.got > 0
    /\ last.wlen < last.req


\* The identity held at byte offset off of the preloaded samples, read as
\* frames of fb bytes: -2 when no extent covers the byte, the last extent
\* written over it otherwise.
ImageAt(log, off, fb) ==
    LET hits == {k \in 1..Len(log) :
                    log[k].dest <= off /\ off < log[k].dest + log[k].nbytes}
    IN IF hits = {} THEN -2
       ELSE CHOOSE r \in {IF e.src < 0 THEN -1
                          ELSE e.src + (off - e.dest) \div fb :
                          e \in {log[CHOOSE k \in hits :
                                        \A j \in hits : j <= k]}} : TRUE

\* The preloading open of a file with codec state (its last get ran).
Preloaded ==
    /\ wav.pc = "open"
    /\ wav.preloaded

\* C4: the state area samplebuffer_init reserves lies inside the nbytes of
\* the region it was given, and overlaps nothing else: in a preloading
\* open, not the codec extension header that follows the samples area.
C4_StateAreaInsideRegion ==
    (Preloaded /\ wav.sbuf.state_size # 0) =>
        /\ wav.sbuf.ptr <= wav.sbuf.state
        /\ wav.sbuf.state + wav.sbuf.state_size
             <= wav.lay.heap_off_samples + wav.lay.preload_size
                + wav.lay.preload_extra_alloc
        /\ \/ wav.sbuf.state + wav.sbuf.state_size <= wav.lay.heap_off_ext
           \/ wav.lay.heap_off_ext + ROUND_UP(wav.h.f.ext_size, 16)
                <= wav.sbuf.state

\* C6: after a preloading open, the samples area holds, frame by frame in
\* the layout the preloaded waveform is read with, what one streaming
\* decode of the whole file produces.
C6_PreloadEqualsStreaming ==
    (Preloaded /\ err = "") =>
        \A ref \in {OnePass(wav.h.f)} :
            \A i \in 0..(wav.h.f.len - 1) :
                ImageAt(wav.img, Shl(i, none_bps(wav.h.f)),
                        Shl(1, none_bps(wav.h.f))) = IdentAt(ref, i)

(***************************************************************************)
(* Streaming voices: what the last get of voice v did.                     *)
(***************************************************************************)
\* The last get of voice v invoked the read callback.
VoiceRead(v) ==
    /\ cod.v[v].obs.op = "get"
    /\ cod.v[v].obs.called

\* The file offset that holds the compressed data of logical sample wpos,
\* after the layout audioconv64 writes (conv_wav64.cpp:306-308: the 9-byte
\* frames of the channels interleaved frame by frame).
NeededOffset(f, wpos) ==
    IF f.format = WAV64_FORMAT_RAW THEN f.base + Shl(wpos, none_bps(f))
    ELSE IF f.format = WAV64_FORMAT_OPUS
    THEN f.base + f.obytes * (wpos \div f.frame_size)
    ELSE IF f.huff
    THEN f.base + (huff_group_bits(f) * (wpos \div VADPCM_FRAME_SAMPLES)) \div 8
    ELSE f.base + (wpos \div VADPCM_FRAME_SAMPLES) * VADPCM_FRAME_BYTES
                  * f.channels

\* Samples decoded by the last read of voice v.
Decoded(v) ==
    LET log == cod.v[v].x.log
    IN IF log = <<>> THEN 0
       ELSE log[Len(log)].wpos + log[Len(log)].n - log[1].wpos

\* C5 (as claimed): when get returns, no decode job submitted by the read
\* callback it invoked is still pending in the RSP queue.
C5_NothingPendingAtReturn ==
    cod.pc = "run" =>
        \A v \in Voices :
            (VoiceRead(v) /\ cod.v[v].err = "") => cod.v[v].x.mine = 0

\* C5 (amended): get never drains the queue itself.  When it returns after
\* a VADPCM read, the jobs that read submitted are still pending, except
\* when the read ran past the end of a looping waveform: there the callback
\* retracts the excess frames and syncs, and nothing is pending.
C5_PendingUnlessLoopEnd ==
    cod.pc = "run" =>
        \A v \in Voices :
            (/\ VoiceRead(v)
             /\ cod.v[v].err = ""
             /\ cod.f.format = WAV64_FORMAT_VADPCM)
            => (cod.v[v].x.mine = 0 <=> cod.v[v].x.undone > 0)

\* A VADPCM read that retracted frames at loop end and left nothing pending.
C5_Witness ==
    /\ cod.pc = "run"
    /\ \E v \in Voices :
         /\ VoiceRead(v)
         /\ cod.v[v].err = ""
         /\ cod.f.format = WAV64_FORMAT_VADPCM
         /\ cod.v[v].x.undone > 0
         /\ cod.v[v].x.mine = 0

\* The first access of voice v was get(32, 16) on a VADPCM file without
\* Huffman compression, and it is the voice's last get.
FirstGet32(v) ==
    /\ cod.f.format = WAV64_FORMAT_VADPCM
    /\ ~cod.f.huff
    /\ cod.v[v].first
    /\ cod.v[v].obs.op = "get"
    /\ cod.v[v].obs.wpos = 32
    /\ cod.v[v].obs.req = 16

C7_EveryReadSeeksOwnPosition ==
    cod.pc = "run" =>
        \A v \in Voices :
            (VoiceRead(v) /\ cod.v[v].x.readoff # -1) =>
                /\ cod.v[v].x.preseek
                /\ cod.v[v].x.readoff = NeededOffset(cod.f, cod.v[v].obs.rdpos)

\* C8: a VADPCM voice that decodes from sample 0 with consecutive reads
\* holds, for every sample of its last read, what one read of the whole
\* stream decodes for that sample.
C8_ChunkedEqualsOnePass ==
    cod.pc = "run" =>
        \A v \in Voices :
            (/\ VoiceRead(v)
             /\ cod.v[v].err = ""
             /\ cod.v[v].consec
             /\ cod.f.format = WAV64_FORMAT_VADPCM
             /\ SAMPLES_BPS_SHIFT(cod.v[v].buf) = none_bps(cod.f))
            => \A k \in 1..Len(cod.v[v].x.log) :
                 \A i \in {cod.v[v].x.log[k].wpos,
                           cod.v[v].x.log[k].wpos + cod.v[v].x.log[k].n - 1} :
                     IdentAt(cod.v[v].x.log, i) = IdentAt(cod.ref, i)

\* C10: on a VADPCM stream without Huffman compression, the offset a read
\* seeks to for logical sample wpos is base_offset + (wpos / 16) * 9 *
\* channels, on the seeking and on the non-seeking path.
C10_SeekOffsetCountsChannels ==
    cod.pc = "run" =>
        \A v \in Voices :
            (/\ VoiceRead(v)
             /\ cod.f.format = WAV64_FORMAT_VADPCM
             /\ ~cod.f.huff
             /\ cod.v[v].x.seekoff # -1)
            => cod.v[v].x.seekoff =
                  cod.f.base + (cod.v[v].obs.rdpos \div 16) * 9
                               * cod.f.channels

\* The last get of voice v made a seeking read of a Huffman-compressed
\* VADPCM stream.
HuffSeek(v) ==
    /\ cod.f.format = WAV64_FORMAT_VADPCM
    /\ cod.f.huff
    /\ VoiceRead(v)
    /\ cod.v[v].obs.seeking

\* C11: a seeking read of a Huffman-compressed VADPCM stream at wpos = 0
\* clears the predictor state and decodes from bit 0 at the base offset; at
\* wpos # 0 with a skip point at exactly wpos it restores that skip point's
\* predictor state and decodes from its bit position; at any other wpos it
\* fails the seeking-point assertion and decodes nothing.
C11_HuffmanSeek ==
    cod.pc = "run" =>
        \A v \in Voices :
            HuffSeek(v) =>
                IF cod.v[v].obs.rdpos = 0
                THEN /\ cod.v[v].x.seektag = 0
                     /\ cod.v[v].x.seekoff = cod.f.base
                     /\ cod.v[v].err = "" =>
                            /\ cod.v[v].x.readoff = cod.f.base
                            /\ cod.v[v].x.log[1].src = 0
                ELSE IF cod.v[v].obs.rdpos \in cod.f.skips
                THEN /\ cod.v[v].x.seektag =
                            cod.v[v].obs.rdpos \div VADPCM_FRAME_SAMPLES
                     /\ cod.v[v].err = "" =>
                            /\ cod.v[v].x.readoff = cod.f.base
                                  + skip_bitpos(cod.f, cod.v[v].obs.rdpos) \div 8
                            /\ cod.v[v].x.log[1].src = cod.v[v].obs.rdpos
                ELSE /\ cod.v[v].err = "vadpcm_seek_point"
                     /\ cod.v[v].x.seektag = -2
                     /\ cod.v[v].x.readoff = -1
                     /\ Decoded(v) = 0

\* A voice seeks to the skip point at 32 of a Huffman-compressed stream and
\* decodes from that skip point's bit.
C11_Witness ==
    /\ cod.pc = "run"
    /\ \E v \in Voices :
         /\ HuffSeek(v)
         /\ cod.v[v].obs.rdpos = 32
         /\ 32 \in cod.f.skips
         /\ cod.v[v].err = ""
         /\ cod.v[v].x.seektag = 2
         /\ cod.v[v].x.readoff > cod.f.base
         /\ Decoded(v) > 0

(***************************************************************************)
(* The Huffman contexts of a compressed VADPCM stream: audioconv64 builds  *)
(* them (huff_vadpcm.c, huffv_compress), checks them by building the       *)
(* lookup tables itself (conv_wav64.cpp:330), and wav64_vadpcm_init builds *)
(* the tables again when the file is opened.                               *)
(*                                                                         *)
(* The input is what calculate_frequencies counts: for each of the three   *)
(* contexts, how often each nibble value occurs in the frames (context 0   *)
(* and 1 take one nibble of every 9-byte frame, context 2 the other 16).   *)
(***************************************************************************)
HUFF_TABLE_SIZE == 16
HUFF_CONTEXTS == 3

MaxSym == 2             \* nibble values 0..MaxSym occur in the frames
MaxFrames == 1          \* 9-byte frames of input

HuffSyms == 0..(HUFF_TABLE_SIZE - 1)
HuffCtxs == 0..(HUFF_CONTEXTS - 1)

RECURSIVE SumUpTo(_, _)
SumUpTo(fn, n) == IF n < 0 THEN 0 ELSE fn[n] + SumUpTo(fn, n - 1)

\* The normalisation at the end of calculate_frequencies
\* (huff_vadpcm.c:100-114); a context is never empty here.
calculate_frequencies(cnt) ==
    [i \in HuffCtxs |->
        [j \in HuffSyms |->
            (cnt[i][j] * 255 + SumUpTo(cnt[i], HUFF_TABLE_SIZE - 1) - 1)
                \div SumUpTo(cnt[i], HUFF_TABLE_SIZE - 1)]]

\* A tree node is its frequency and the codes of the leaves below it,
\* relative to the node: joining two nodes puts bit 0 in front of the left
\* codes and bit 1 in front of the right ones, which is what
\* generate_huffman_codes computes from the root down.
huff_leaf(i, fr) ==
    [frequency |-> fr,
     codes |-> {[symbol |-> i, value |-> 0, length |-> 0]}]

huff_join(l, r) ==
    [frequency |-> l.frequency + r.frequency,
     codes |-> {[c EXCEPT !.length = @ + 1] : c \in l.codes}
               \cup {[c EXCEPT !.value = (2 ^ c.length) + @,
                               !.length = @ + 1] : c \in r.codes}]

\* The merging loop of build_huffman_tree: the set of roots it can return.
\* qsort orders nodes of equal frequency in any order.
RECURSIVE huff_merge(_)
huff_merge(heap) ==
    IF Cardinality(heap) = 1 THEN heap
    ELSE UNION {huff_merge((heap \ {l, r}) \cup {huff_join(l, r)}) :
                  <<l, r>> \in
                    {p \in heap \X heap :
                       /\ p[1] # p[2]
                       /\ p[1].frequency <= p[2].frequency
                       /\ \A n \in heap \ {p[1]} :
                            p[2].frequency <= n.frequency}}

build_huffman_tree(frequencies) ==
    huff_merge({huff_leaf(i, frequencies[i]) :
                  i \in {j \in HuffSyms : frequencies[j] # 0}})

\* The code table of a root: length -1 marks a symbol that does not occur.
generate_huffman_codes(root) ==
    [j \in HuffSyms |->
        IF \E c \in root.codes : c.symbol = j
        THEN CHOOSE r \in {[value |-> c.value, length |-> c.length] :
                           c \in {d \in root.codes : d.symbol = j}} : TRUE
        ELSE [value |-> 0, length |-> -1]]

\* The code tables huffv_compress can settle on for one context
\* (huff_vadpcm.c:124-154): codes longer than 8 bits make it halve the
\* frequencies and build again.
RECURSIVE huff_codes(_)
huff_codes(frequencies) ==
    UNION {IF \A j \in HuffSyms : codes[j].length <= 8 THEN {codes}
           ELSE huff_codes([j \in HuffSyms |->
                              IF frequencies[j] > 1
                              THEN frequencies[j] \div 2
                              ELSE frequencies[j]]) :
           codes \in {generate_huffman_codes(root) :
                        root \in build_huffman_tree(frequencies)}}

\* The 24 serialized bytes of one context (huff_vadpcm.c:159-182): eight
\* bytes of two 4-bit lengths, 0xF for an unused symbol, and 16 values.
huff_serialize(codes) ==
    [lengths |->
        [b \in 0..7 |->
            16 * (IF codes[2 * b].length < 0 THEN 15
                  ELSE codes[2 * b].length)
            + (IF codes[2 * b + 1].length < 0 THEN 15
               ELSE codes[2 * b + 1].length)],
     values |-> [j \in HuffSyms |-> codes[j].value]]

\* The contexts huffv_compress can write for the counted nibbles.
huffv_compress(cnt) ==
    {[i \in HuffCtxs |-> huff_serialize(c[i])] :
       c \in {t \in [HuffCtxs ->
                       UNION {huff_codes(calculate_frequencies(cnt)[i]) :
                                i \in HuffCtxs}] :
                \A i \in HuffCtxs :
                   t[i] \in huff_codes(calculate_frequencies(cnt)[i])}}

\* The stored length of symbol j: lengths[j/2] >> (4*(~j&1)) & 0xf.
huff_len(ctx, j) ==
    (ctx.lengths[j \div 2] \div (16 ^ (1 - (j % 2)))) % 16

\* The symbol loop of the table construction from symbol j on
\* (wav64_vadpcm.c:355-368); tbl is [codes, err].
RECURSIVE huff_fill(_, _, _)
huff_fill(ctx, j, tbl) ==
    IF tbl.err # "" \/ j = HUFF_TABLE_SIZE THEN tbl
    ELSE IF huff_len(ctx, j) = 15 THEN huff_fill(ctx, j + 1, tbl)
    ELSE IF ~(huff_len(ctx, j) <= 8)
    THEN [tbl EXCEPT !.err = "huff_length"]
    ELSE IF ~(ctx.values[j] \div (2 ^ huff_len(ctx, j)) = 0)
    THEN [tbl EXCEPT !.err = "huff_value"]
    ELSE CHOOSE r \in
      {IF \E k \in 0..((2 ^ shift) - 1) :
             tbl.codes[ctx.values[j] * (2 ^ shift) + k] # 0
       THEN [tbl EXCEPT !.err = "huff_entry_written_twice"]
       ELSE huff_fill(ctx, j + 1,
               [tbl EXCEPT !.codes =
                  [e \in 0..255 |->
                     IF /\ ctx.values[j] * (2 ^ shift) <= e
                        /\ e < (ctx.values[j] + 1) * (2 ^ shift)
                     THEN (j * 16 + huff_len(ctx, j)) % 256
                     ELSE tbl.codes[e]]]) :
       shift \in {8 - huff_len(ctx, j)}} : TRUE

\* One context's table: zeroed, filled symbol by symbol, and then every
\* entry asserted to be non-zero (wav64_vadpcm.c:351-372).
huff_table(ctx) ==
    CHOOSE r \in
      {IF t.err = "" /\ \E e \in 0..255 : t.codes[e] = 0
       THEN [t EXCEPT !.err = "huff_entry_empty"]
       ELSE t :
       t \in {huff_fill(ctx, 0, [codes |-> [e \in 0..255 |-> 0],
                                 err |-> ""])}} : TRUE

\* The first assertion that fails over the three contexts, "" if none.
huff_tables_err(tbl) ==
    IF \E i \in HuffCtxs : tbl[i].err # ""
    THEN tbl[CHOOSE i \in HuffCtxs :
                /\ tbl[i].err # ""
                /\ \A k \in HuffCtxs : tbl[k].err # "" => i <= k].err
    ELSE ""

\* wav64_vadpcm_init_huffman on the contexts of the extended header.
wav64_vadpcm_init_huffman(ctx) == [i \in HuffCtxs |-> huff_table(ctx[i])]

\* huffv_decompress_init of audioconv64 on the contexts it just wrote.
huffv_decompress_init(ctx) == [i \in HuffCtxs |-> huff_table(ctx[i])]

\* The ways total nibbles of one context spread over the values 0..MaxSym.
HuffCountVecs(total) ==
    {[j \in HuffSyms |-> IF j <= MaxSym THEN c[j] ELSE 0] :
       c \in {d \in [0..MaxSym -> 0..total] : SumUpTo(d, MaxSym) = total}}

\* The frames of the input: context 0 and 1 count one nibble per frame,
\* context 2 sixteen.
InitHuff ==
    /\ buf = samplebuffer_init(0, 8, 0)
    /\ err = ""
    /\ last = NoObs
    /\ wav = NoWav
    /\ \E n \in 1..MaxFrames :
       \E c0 \in HuffCountVecs(n), c1 \in HuffCountVecs(n),
          c2 \in HuffCountVecs(16 * n) :
          cod = [pc |-> "huff_input",
                 cnt |-> [i \in HuffCtxs |->
                            IF i = 0 THEN c0 ELSE IF i = 1 THEN c1 ELSE c2]]

\* audioconv64 compresses the frames and builds the tables of the contexts
\* it wrote (conv_wav64.cpp:319-331).
DoHuffConvert ==
    /\ err = ""
    /\ cod.pc = "huff_input"
    /\ \E ctx \in huffv_compress(cod.cnt) :
       \E tbl \in {huffv_decompress_init(ctx)} :
          /\ cod' = [pc |-> "huff_file", cnt |-> cod.cnt, ctx |-> ctx,
                     tbl |-> tbl]
          /\ err' = huff_tables_err(tbl)
    /\ UNCHANGED <<buf, last, wav>>

\* wav64_vadpcm_init opens the file audioconv64 wrote.
DoHuffInit ==
    /\ err = ""
    /\ cod.pc = "huff_file"
    /\ \E tbl \in {wav64_vadpcm_init_huffman(cod.ctx)} :
          /\ cod' = [cod EXCEPT !.pc = "huff_ready", !.tbl = tbl]
          /\ err' = huff_tables_err(tbl)
    /\ UNCHANGED <<buf, last, wav>>

NextHuff == DoHuffConvert \/ DoHuffInit

SpecHuff == InitHuff /\ [][NextHuff]_vars

\* Some context was built into a table, by the converter or at open.
HuffBuilt == cod.pc \in {"huff_file", "huff_ready"}

\* C12: for every context the encoder emits, a single-symbol context of
\* code length 0 included, building the 256-entry table fails no assertion,
\* leaves every entry populated, and every entry's length field is the
\* stored code length of the entry's symbol.
C12_TableBuildSucceeds ==
    HuffBuilt =>
        /\ err = ""
        /\ \A i \in HuffCtxs : \A e \in 0..255 :
              /\ cod.tbl[i].codes[e] # 0
              /\ cod.tbl[i].codes[e] % 16
                    = huff_len(cod.ctx[i], cod.tbl[i].codes[e] \div 16)

\* The format code of the header is that of a codec made available.
KnownFormat(h) ==
    h.f.format \in {WAV64_FORMAT_RAW, WAV64_FORMAT_VADPCM} \cup h.registered

\* An open was attempted: it failed, or the waveform is open.
OpenTried == wav.pc # "closed" \/ err # ""

\* C13: opening a file whose format byte is not the code of a registered
\* codec fails at open time, before any field of the caller's wav64_t has
\* been written.
C13_UnknownFormatFailsClean ==
    (wav.pc \in {"closed", "wild", "open"} /\ OpenTried
        /\ ~KnownFormat(wav.h)) =>
            /\ err \in {"open_unknown_format", "open_format_not_initialized"}
            /\ wav.pc = "closed"

\* C14: an 8-bit waveform never has an odd loop length in memory, neither
\* after loading (an odd loop_len of the header is rounded down) nor after
\* wav64_set_loop.
C14_EightBitLoopEven ==
    (wav.pc = "open" /\ wav.h.f.bits = 8) => wav.loop_len % 2 = 0

\* wav64_close has run on an open waveform.
Closed == wav.pc = "freed"

\* C15: when wav64_close returns, no mixer channel plays the closed
\* waveform, and none played it when the codec close hook ran or when the
\* heap block was freed.
C15_CloseStopsChannelsFirst ==
    Closed =>
        /\ wav.playing = {}
        /\ \A k \in 1..Len(wav.trace) :
              wav.trace[k].op \in {"close_hook", "close", "free"}
                 => wav.trace[k].playing = {}

\* A waveform with a close hook, playing on every channel, was closed.
C15_Witness ==
    /\ Closed
    /\ Len(wav.trace) >= MaxChannels + 2
    /\ \A k \in 1..MaxChannels : wav.trace[k].op = "mixer_ch_stop"
    /\ wav.trace[MaxChannels + 1].op = "close_hook"
    /\ wav.trace[Len(wav.trace)].op = "free"

(***************************************************************************)
(* xm64.c: a player and the WAV64 files of its samples.  Embedded samples  *)
(* are opened with wav64_loadfd on the player's own descriptor, external   *)
(* ones with wav64_load (xm64.c:166-182).  The player x is [pc, embedded,  *)
(* playing, fd_open, closes, samples, trace]: fd_open and closes are the   *)
(* state of player->fd and the close() calls made on it, trace the file    *)
(* operations of xm64player_close.  No stop or seek is requested here, so  *)
(* a tick runs its channel loop.                                           *)
(***************************************************************************)
MaxSamples == 2

XmSamples == 1..MaxSamples

\* The requests xm64player_open makes for a sample: streaming (parms NULL),
\* a heap-allocated wav64_t, at data8_offset of the shared descriptor or
\* from a file of its own.
XmSampleRequests(embedded) ==
    {h \in OpenRequests :
        /\ WellFormed(h.f)
        /\ h.f.format \in {WAV64_FORMAT_RAW, WAV64_FORMAT_VADPCM}
        /\ h.f.channels = 1 /\ h.f.len = 32 /\ h.f.loop_len = 0
        /\ ~h.preload /\ h.wav_null /\ h.registered = {}
        /\ h.owned = ~embedded}

\* xm64player_open (xm64.c:117-186) from the reopening of the file on.
xm64player_open(x) ==
    [pc |-> "xm_open", embedded |-> x.embedded, playing |-> FALSE,
     fd_open |-> TRUE, closes |-> 0,
     samples |-> [i \in XmSamples |-> internal_open(x.req[i]).wav],
     trace |-> <<>>]

\* The channel loop of tick (xm64.c:73-101): sel[ch] is the sample channel
\* ch is to play, 0 for none.
xm_tick_channels(x, sel) ==
    [x EXCEPT !.samples =
        [i \in XmSamples |->
            [@[i] EXCEPT !.playing =
                {ch \in 0..(MaxChannels - 1) : sel[ch] = i}]]]

\* mixer_ch_stop on every channel of the player (xm64.c:265-268).
xm_stop_channels(x) ==
    [x EXCEPT !.samples =
        [i \in XmSamples |-> [@[i] EXCEPT !.playing = {}]]]

\* wav64_close of sample i and of those after it (xm64.c:271-280).  On an
\* embedded sample the descriptor wav64_close would close is the player's.
RECURSIVE xm_close_samples(_, _)
xm_close_samples(x, i) ==
    IF i > MaxSamples THEN x
    ELSE CHOOSE r \in
      {xm_close_samples(
          [x EXCEPT !.samples[i] = c,
                    !.fd_open = IF x.embedded /\ ~c.fd_open THEN FALSE ELSE @,
                    !.closes = IF x.embedded /\ ~c.fd_open THEN @ + 1 ELSE @,
                    !.trace = Append(@,
                        [op |-> "wav64_close",
                         closed_fd |-> ~c.fd_open,
                         player_fd_open |-> x.fd_open
                                            /\ ~(x.embedded /\ ~c.fd_open)])],
          i + 1) :
       c \in {wav64_close(x.samples[i])}} : TRUE

\* xm64player_close (xm64.c:259-291)
xm64player_close(x) ==
    CHOOSE r \in
      {[c EXCEPT !.pc = "xm_closed", !.playing = FALSE,
                 !.fd_open = FALSE, !.closes = @ + 1,
                 !.trace = Append(@, [op |-> "close", closed_fd |-> TRUE,
                                      player_fd_open |-> FALSE])] :
       c \in {xm_close_samples(xm_stop_channels(x), 1)}} : TRUE

InitXm ==
    /\ buf = samplebuffer_init(0, 8, 0)
    /\ err = ""
    /\ last = NoObs
    /\ wav = NoWav
    /\ \E embedded \in BOOLEAN :
       \E req \in [XmSamples -> XmSampleRequests(embedded)] :
          cod = [pc |-> "xm_new", embedded |-> embedded, req |-> req]

DoXmOpen ==
    /\ err = ""
    /\ cod.pc = "xm_new"
    /\ cod' = xm64player_open(cod)
    /\ UNCHANGED <<buf, err, last, wav>>

\* xm64player_play (xm64.c:196-217)
DoXmPlay ==
    /\ err = ""
    /\ cod.pc = "xm_open"
    /\ cod' = [cod EXCEPT !.playing = TRUE]
    /\ UNCHANGED <<buf, err, last, wav>>

DoXmTick(sel) ==
    /\ err = ""
    /\ cod.pc = "xm_open"
    /\ cod.playing
    /\ cod' = xm_tick_channels(cod, sel)
    /\ UNCHANGED <<buf, err, last, wav>>

DoXmClose ==
    /\ err = ""
    /\ cod.pc = "xm_open"
    /\ cod' = xm64player_close(cod)
    /\ UNCHANGED <<buf, err, last, wav>>

NextXm ==
    \/ DoXmOpen
    \/ DoXmPlay
    \/ \E sel \in [0..(MaxChannels - 1) -> 0..MaxSamples] : DoXmTick(sel)
    \/ DoXmClose

SpecXm == InitXm /\ [][NextXm]_vars

\* xm64player_close has run.
XmClosed == cod.pc = "xm_closed"

\* C16: wav64_close closes the descriptor of a WAV64 if and only if the
\* open opened it itself (wav64_load), not one handed in through
\* wav64_loadfd; so the descriptor an XM64 player shares with its embedded
\* samples stays open while they are closed, and xm64player_close closes it
\* exactly once, after the last sample.
C16_CloseOwnedFdOnly ==
    XmClosed =>
        /\ \A i \in XmSamples :
              /\ cod.samples[i].pc = "freed"
              /\ cod.samples[i].fd_open = cod.embedded
              /\ (\E k \in 1..Len(cod.samples[i].trace) :
                     cod.samples[i].trace[k].op = "close") <=> ~cod.embedded
        /\ cod.closes = 1
        /\ ~cod.fd_open
        /\ Len(cod.trace) = MaxSamples + 1
        /\ \A k \in 1..MaxSamples :
              /\ cod.trace[k].op = "wav64_close"
              /\ cod.trace[k].player_fd_open
        /\ cod.trace[MaxSamples + 1].op = "close"

\* A player with embedded samples was closed: its samples were freed and
\* its descriptor closed once.
C16_Witness ==
    /\ XmClosed
    /\ cod.embedded
    /\ cod.closes = 1
    /\ \E i \in XmSamples :
          \E k \in 1..Len(cod.samples[i].trace) :
             cod.samples[i].trace[k].op = "free"

\* C20: in every reachable state of the sample buffer, after every get,
\* append, undo, discard and flush and for every bits-per-sample setting,
\* the window start has an even byte address: wpos * 2^bps is even.
C20_WindowStartEven ==
    Shl(buf.wpos, SAMPLES_BPS_SHIFT(buf)) % 2 = 0

\* A get at an odd position of an 8-bit buffer started the window one frame
\* earlier and read from there.
C20_Witness ==
    /\ last.op = "get"
    /\ err = ""
    /\ SAMPLES_BPS_SHIFT(buf) = 0
    /\ last.wpos % 2 = 1
    /\ last.called
    /\ last.rdpos = last.wpos - 1
    /\ buf.wpos = last.wpos - 1

(***************************************************************************)
(* The sample buffer together with the bytes of its backing region.        *)
(*                                                                         *)
(* mem maps every byte offset of the region to the identity of the byte it *)
(* holds: FrameByte(p, k) is byte k of logical frame p, -1 is anything     *)
(* else.  The read callback appends the frames it was asked for (or half   *)
(* of them) and writes their bytes at the pointer append returned.  The    *)
(* record in cod also keeps what the claims below need of the past: the    *)
(* previous operation, the shift and size of the last discard, the wnext   *)
(* a flush erased, and how far the run has followed the sequence           *)
(* get(0,16), get(16,16), append(16), get(16,16) on a fresh 32-frame       *)
(* 16-bit buffer (scn).  A run is RingSteps operations long (n counts).     *)
(***************************************************************************)
RingWords == 8          \* the backing region has 8 * RingWords bytes
RingSteps == 4          \* operations in one run

RingBytes == 8 * RingWords

FrameByte(p, k) == 4 * p + k

\* The callback's (or the caller's) stores through the pointer append
\* returned: n frames of logical positions pos, pos+1, ...
write_frames(mem, bps, data, pos, n) ==
    [a \in DOMAIN mem |->
        IF a >= data /\ a < data + Shl(n, bps)
        THEN FrameByte(pos + Shr(a - data, bps), (a - data) % Shl(1, bps))
        ELSE mem[a]]

\* One 64-bit load from src and store to dst; a load that runs past the
\* region reads bytes the model knows nothing about.
copy_word(mem, src, dst) ==
    [a \in DOMAIN mem |->
        IF a >= dst /\ a < dst + 8
        THEN IF (src + (a - dst)) \in DOMAIN mem THEN mem[src + (a - dst)]
             ELSE -1
        ELSE mem[a]]

\* The same n words copied from the last one to the first.
RECURSIVE copy64_backward(_, _, _, _)
copy64_backward(mem, src, dst, n) ==
    IF n = 0 THEN mem
    ELSE copy64_backward(copy_word(mem, src + 8 * (n - 1), dst + 8 * (n - 1)),
                         src, dst, n - 1)

\* for (i = 0; i < kept_bytes/8; i++) *dst64++ = *src64++;
RECURSIVE copy64(_, _, _, _)
copy64(mem, src, dst, n) ==
    IF n = 0 THEN mem
    ELSE copy64(copy_word(mem, src, dst), src + 8, dst + 8, n - 1)

\* The bytes of the region after samplebuffer_discard(b, wpos).
discard_copy(b, wpos, mem) ==
    LET idx == discard_idx(b, wpos)
        kept_bytes == Shl(b.widx - idx, SAMPLES_BPS_SHIFT(b))
    IN IF discard_moves(b, wpos)
       THEN copy64(mem, Shl(idx, SAMPLES_BPS_SHIFT(b)), 0,
                   ROUND_UP(kept_bytes, 8) \div 8)
       ELSE mem

\* samplebuffer_append followed by the stores of wlen frames through the
\* returned pointer: [buf, mem, data, err].  pos is the logical position of
\* the first frame written; a caller outside a read callback writes the
\* frames that follow the window (pos = -1).
ring_append(b, mem, wlen, pos) ==
    LET a == samplebuffer_append(b, wlen)
        m1 == IF b.widx + wlen > b.size /\ b.widx >= b.ridx
              THEN discard_copy(b, b.wpos + append_rollback(b), mem)
              ELSE mem
        p == IF pos < 0 THEN a.buf.wpos + a.buf.widx - wlen ELSE pos
    IN [buf |-> a.buf, data |-> a.data, err |-> a.err,
        mem |-> IF a.err = ""
                THEN write_frames(m1, SAMPLES_BPS_SHIFT(b), a.data, p, wlen)
                ELSE m1]

\* How far the run has followed get(0,16), get(16,16), append(16),
\* get(16,16) from a fresh buffer of 32 frames at 16 bits, each callback
\* delivering what it was asked for.
ring_scn(c, b, op, wpos, wlen, full) ==
    IF op = "get" /\ wpos = 0 /\ wlen = 16 /\ full /\ c.n = 0
       /\ SAMPLES_BPS_SHIFT(b) = 1 /\ b.size = 32
    THEN 1
    ELSE IF c.scn = 1 /\ op = "get" /\ wpos = 16 /\ wlen = 16 /\ full THEN 2
    ELSE IF c.scn = 2 /\ op = "append" /\ wlen = 16 THEN 3
    ELSE IF c.scn = 3 /\ op = "get" /\ wpos = 16 /\ wlen = 16 THEN 4
    ELSE 0

RingNote(c, b, op, wpos, wlen, full, mem) ==
    [pc |-> "ring", n |-> c.n + 1, mem |-> mem, prev |-> last.op,
     scn |-> ring_scn(c, b, op, wpos, wlen, full),
     shift |-> 0, kept |-> 0, fw |-> -2, contig |-> FALSE]

InitRing ==
    /\ \E bits \in {8, 16, 32} :
          buf = samplebuffer_set_bps(samplebuffer_init(0, RingBytes, 0),
                                     bits).buf
    /\ err = ""
    /\ last = NoObs
    /\ wav = NoWav
    /\ cod = [pc |-> "ring", n |-> 0,
              mem |-> [a \in 0..(RingBytes - 1) |-> -1], prev |-> "none", scn |-> 0, shift |-> 0, kept |-> 0,
              fw |-> -2, contig |-> FALSE]

\* samplebuffer_get with a callback that appends all the frames it is asked
\* for, or half of them.
RingGet(wpos, wlen, short) ==
    /\ err = ""
    /\ cod.n < RingSteps
    /\ UNCHANGED wav
    /\ \E p \in {get_plan(buf, wpos, wlen)} :
          /\ short => p.call
          /\ \E k \in {IF short THEN p.rdlen \div 2 ELSE p.rdlen} :
             \E c \in {IF p.call /\ k > 0
                        THEN ring_append(p.buf, cod.mem, k, p.rdpos)
                        ELSE [buf |-> p.buf, data |-> -1, err |-> p.err,
                              mem |-> cod.mem]} :
             \E f \in {IF c.err = ""
                        THEN get_finish(c.buf, wpos, wlen, p.call)
                        ELSE [buf |-> c.buf, ret |-> -1, wlen |-> wlen,
                              err |-> c.err]} :
                /\ buf' = f.buf
                /\ err' = f.err
                /\ last' = [op |-> "get", data |-> c.data, called |-> p.call,
                            rdpos |-> p.rdpos, rdlen |-> p.rdlen,
                            seeking |-> p.seeking,
                            got |-> IF p.call THEN k ELSE 0,
                            req |-> wlen, wpos |-> wpos, wlen |-> f.wlen,
                            ret |-> f.ret]
                /\ cod' = [RingNote(cod, buf, "get", wpos, wlen, ~short, c.mem)
                             EXCEPT !.contig = (last.op = "flush"
                                                /\ wpos = cod.fw)]

\* samplebuffer_append called directly, the caller filling the frames.
RingAppend(wlen) ==
    /\ err = ""
    /\ cod.n < RingSteps
    /\ UNCHANGED wav
    /\ \E a \in {ring_append(buf, cod.mem, wlen, -1)} :
          /\ buf' = a.buf
          /\ err' = a.err
          /\ last' = [NoObs EXCEPT !.op = "append", !.data = a.data,
                                   !.req = wlen]
          /\ cod' = RingNote(cod, buf, "append", -1, wlen, TRUE, a.mem)

RingDiscard(wpos) ==
    /\ err = ""
    /\ cod.n < RingSteps
    /\ UNCHANGED wav
    /\ buf' = samplebuffer_discard(buf, wpos)
    /\ err' = ""
    /\ last' = [NoObs EXCEPT !.op = "discard", !.wpos = wpos]
    /\ cod' = [RingNote(cod, buf, "discard", wpos, 0, TRUE,
                        discard_copy(buf, wpos, cod.mem))
                 EXCEPT !.shift = Shl(discard_idx(buf, wpos),
                                      SAMPLES_BPS_SHIFT(buf)),
                        !.kept = Shl(buf.widx - discard_idx(buf, wpos),
                                     SAMPLES_BPS_SHIFT(buf))]

RingFlush ==
    /\ err = ""
    /\ cod.n < RingSteps
    /\ UNCHANGED wav
    /\ buf' = samplebuffer_flush(buf)
    /\ err' = ""
    /\ last' = [NoObs EXCEPT !.op = "flush"]
    /\ cod' = [RingNote(cod, buf, "flush", -1, 0, TRUE, cod.mem)
                 EXCEPT !.fw = buf.wnext]

NextRing ==
    \/ \E wpos \in {0, 5, 16, 32}, short \in BOOLEAN : RingGet(wpos, 16, short)
    \/ RingAppend(16)
    \/ \E wpos \in (0..24) \cup {32, 40, 48} : RingDiscard(wpos)
    \/ RingFlush

SpecRing == InitRing /\ [][NextRing]_vars

RingRun == cod.pc = "ring"

\* C17 (as the code behaves): on a fresh buffer of 32 frames at 16 bits,
\* after get(0, 16) and get(16, 16), each served in full by the callback, a
\* direct append(16) compacts the buffer: frames 16..31 move to offset 0 of
\* the backing region, the window starts at 16, and the returned pointer is
\* at byte offset 32, right behind the 16 retained frames.  A following
\* get(16, 16) returns offset 0 without calling the callback, and the
\* retained frames are still there.
C17_AppendCompacts ==
    /\ (RingRun /\ cod.scn = 3) =>
          /\ err = ""
          /\ last.op = "append"
          /\ buf.wpos = 16 /\ buf.widx = 32 /\ buf.ridx = 0
          /\ last.data = 32
          /\ \A a \in 0..31 : cod.mem[a] = FrameByte(16 + a \div 2, a % 2)
          /\ \A a \in 32..63 : cod.mem[a] = FrameByte(32 + (a - 32) \div 2, a % 2)
    /\ (RingRun /\ cod.scn = 4) =>
          /\ err = ""
          /\ ~last.called
          /\ last.ret = 0 /\ last.wlen = 16
          /\ buf.wpos = 16
          /\ \A a \in 0..31 : cod.mem[a] = FrameByte(16 + a \div 2, a % 2)

\* C17 (as stated): in that sequence the append compacts the buffer and
\* returns a pointer at offset 0 of the backing region.
C17_AppendReturnsOffsetZero ==
    (RingRun /\ cod.scn = 3) =>
        /\ err = ""
        /\ buf.wpos = 16
        /\ last.data = 0

\* The sequence has run up to the get that follows the compacting append.
C17_Witness ==
    /\ RingRun
    /\ cod.scn = 4
    /\ cod.prev = "append"
    /\ last.op = "get"
    /\ buf.size = 32

\* One step of the run seen as a discard: the buffer and the region before
\* it (unprimed) against the buffer and the region after it (primed).
DiscardStep ==
    (RingRun /\ last'.op = "discard") =>
        LET bps == SAMPLES_BPS_SHIFT(buf)
            end == buf.wpos + buf.widx
        IN /\ err' = ""
           /\ (last'.wpos <= buf.wpos => (buf' = buf /\ cod'.mem = cod.mem))
           /\ buf'.wpos >= buf.wpos
           /\ buf'.wpos <= Max(buf.wpos, last'.wpos)
           /\ buf'.wpos + buf'.widx = end
           /\ \A q \in buf'.wpos..(end - 1), k \in 0..(Shl(1, bps) - 1) :
                 cod'.mem[Shl(q - buf'.wpos, bps) + k]
                    = cod.mem[Shl(q - buf.wpos, bps) + k]

\* C18: discard(wpos) never drops a frame at or after wpos and leaves the
\* window end where it was; every retained frame, from the new window start
\* up to the window end, holds at its new physical offset the bytes it held
\* before the call, also when the source and destination ranges of the move
\* overlap; discard(wpos) with wpos at or before the window start changes
\* neither the buffer nor the region.
C18_DiscardKeepsFrames == [][DiscardStep]_vars

\* A discard moved frames over a distance shorter than the bytes it kept
\* (the ranges overlap) and not a multiple of 8, and what now sits at
\* offset 0 is a byte the callback wrote.
C18_Witness ==
    /\ RingRun
    /\ last.op = "discard"
    /\ err = ""
    /\ cod.shift > 0
    /\ cod.kept > cod.shift
    /\ cod.shift % 8 # 0
    /\ cod.mem[0] >= 0
    /\ buf.widx > 0

\* C19: after flush, wpos = widx = ridx = 0; and the get that follows a
\* flush calls the read callback with seeking = TRUE whatever position it
\* asks for, the position that was contiguous before the flush included.
C19_FlushThenGetSeeks ==
    /\ (RingRun /\ last.op = "flush") =>
          (buf.wpos = 0 /\ buf.widx = 0 /\ buf.ridx = 0)
    /\ (RingRun /\ last.op = "get" /\ cod.prev = "flush") =>
          (last.called /\ last.seeking)

\* A get right after a flush asked for the position the next read would
\* have continued from, had the flush not happened.
C19_Witness ==
    /\ RingRun
    /\ last.op = "get"
    /\ cod.prev = "flush"
    /\ cod.contig
    /\ last.wpos > 0
    /\ last.called
    /\ last.seeking
    /\ err = ""

(***************************************************************************)
(* xm64.c: the tick callback and the requests the main thread leaves for   *)
(* it.  The player x is [pc, playing, stop_requested, looping, first_ch,   *)
(* seek, scheduled, ctx, mix, log, ret, nreq, nseek]:                      *)
(*   seek       the pending request [patidx, row, tick], patidx = -1 when  *)
(*              there is none;                                             *)
(*   scheduled  whether the mixer holds the tick event;                    *)
(*   ctx        the libxm context: current_table_index, current_row,       *)
(*              current_tick, loop_count and, per channel, the current     *)
(*              sample (0 is NULL) and sample_position;                    *)
(*   mix        per mixer channel, the waveform it plays (0: stopped) and  *)
(*              its position;                                              *)
(*   log, ret   the calls the last tick made, in order, and what it        *)
(*              returned;                                                  *)
(*   nreq, nseek how many seeks were requested and how many xm_seek calls  *)
(*              were made.                                                 *)
(* The engine step xm_tick and the mixer are not part of these sources:    *)
(* the step is an input e = [ch, looped, adv, delay] giving the channel    *)
(* values it leaves, whether the module looped, whether the row advanced   *)
(* and the samples until the next tick.                                    *)
(***************************************************************************)
NumXmChannels == 2      \* ctx->module.num_channels
MaxFirstCh == 1         \* first_ch is 0..MaxFirstCh
MaxPat == 1             \* pattern table indices 0..MaxPat
MaxRow == 1             \* rows 0..MaxRow
MaxSeeks == 2           \* seek requests in one run
TickSteps == 5          \* calls in one run

XmChans == 0..(NumXmChannels - 1)
TickMixChans == 0..(MaxFirstCh + NumXmChannels - 1)

NoSeek == [patidx |-> -1, row |-> 0, tick |-> 0]

Logged(x, ev) == [x EXCEPT !.log = Append(@, ev)]

\* mixer_ch_stop(c)
xm_mixer_ch_stop(x, c) ==
    Logged([x EXCEPT !.mix[c] = [wave |-> 0, pos |-> 0]], <<"stop", c>>)

\* for (i...) mixer_ch_stop(first_ch+i), from channel i on
RECURSIVE stop_all(_, _)
stop_all(x, i) ==
    IF i >= NumXmChannels THEN x
    ELSE stop_all(xm_mixer_ch_stop(x, x.first_ch + i), i + 1)

\* A stop() that leaves stop_requested set.
stop_keep_request(x) ==
    [stop_all(x, 0) EXCEPT !.playing = FALSE]

\* A stop() that leaves playing set.
stop_keep_playing(x) ==
    [stop_all(x, 0) EXCEPT !.stop_requested = FALSE]

\* static void stop(ctx, xmp)
stop(x) ==
    [stop_all(x, 0) EXCEPT !.playing = FALSE, !.stop_requested = FALSE]

\* xm_seek: the arguments arrive as uint8_t, uint8_t, uint16_t.
xm_seek(x, pot, row, tk) ==
    Logged([x EXCEPT !.ctx.idx = pot % 256, !.ctx.row = row % 256,
                     !.ctx.tick = tk % 65536, !.nseek = @ + 1],
           <<"seek", pot % 256, row % 256, tk % 65536>>)

\* xm_get_position: <<pattern_index, row>>
xm_get_position(x) == <<x.ctx.idx, x.ctx.row>>

\* tick, lines 37-41: take the mixer's positions of the playing channels.
tick_sync(x) ==
    [x EXCEPT !.ctx.ch =
        [i \in XmChans |->
            IF x.mix[x.first_ch + i].wave # 0
            THEN [@[i] EXCEPT !.pos = x.mix[x.first_ch + i].pos]
            ELSE @[i]]]

\* tick, lines 49-61, without clearing the request.
tick_seek_keep(x) ==
    IF x.seek.patidx >= 0
    THEN stop_all(
           Logged([xm_seek(x, x.seek.patidx, x.seek.row, x.seek.tick)
                     EXCEPT !.ctx.ch = [i \in XmChans |->
                                           [@[i] EXCEPT !.pos = 0]]],
                  <<"zero">>), 0)
    ELSE x

\* tick, lines 49-61: apply a pending seek.
tick_seek(x) ==
    IF x.seek.patidx >= 0
    THEN stop_all(
           Logged([xm_seek(x, x.seek.patidx, x.seek.row, x.seek.tick)
                     EXCEPT !.seek.patidx = -1,
                            !.ctx.ch = [i \in XmChans |->
                                           [@[i] EXCEPT !.pos = 0]]],
                  <<"zero">>), 0)
    ELSE x

\* xm_tick, the engine step.
xm_tick(x, e) ==
    Logged([x EXCEPT !.ctx.ch = e.ch,
                     !.ctx.loop_count = IF e.looped THEN 1 ELSE @,
                     !.ctx.row = IF e.adv THEN (@ + 1) % (MaxRow + 1) ELSE @,
                     !.ctx.idx = IF e.adv /\ x.ctx.row = MaxRow
                                 THEN (@ + 1) % (MaxPat + 1) ELSE @],
           <<"engine">>)

\* The channel loop with the else branch (line 99) left out.
RECURSIVE tick_channels_nostop(_, _)
tick_channels_nostop(x, i) ==
    IF i >= NumXmChannels THEN x
    ELSE LET c == x.first_ch + i
             ch == x.ctx.ch[i]
         IN IF ch.sample # 0 /\ ch.pos >= 0
            THEN LET x1 == IF x.mix[c].wave # ch.sample
                           THEN Logged([x EXCEPT !.mix[c] =
                                          [wave |-> ch.sample, pos |-> 0]],
                                       <<"play", c>>)
                           ELSE x
                     x2 == Logged([x1 EXCEPT !.mix[c].pos = ch.pos],
                                  <<"pos", c>>)
                 IN tick_channels_nostop(
                        Logged(Logged(x2, <<"freq", c>>), <<"vol", c>>),
                        i + 1)
            ELSE tick_channels_nostop(x, i + 1)

\* tick, lines 73-101: the per-channel update, from channel i on.
RECURSIVE tick_channels(_, _)
tick_channels(x, i) ==
    IF i >= NumXmChannels THEN x
    ELSE LET c == x.first_ch + i
             ch == x.ctx.ch[i]
         IN IF ch.sample # 0 /\ ch.pos >= 0
            THEN LET x1 == IF x.mix[c].wave # ch.sample
                           THEN Logged([x EXCEPT !.mix[c] =
                                          [wave |-> ch.sample, pos |-> 0]],
                                       <<"play", c>>)
                           ELSE x
                     x2 == Logged([x1 EXCEPT !.mix[c].pos = ch.pos],
                                  <<"pos", c>>)
                 IN tick_channels(
                        Logged(Logged(x2, <<"freq", c>>), <<"vol", c>>),
                        i + 1)
            ELSE tick_channels(xm_mixer_ch_stop(x, c), i + 1)

\* static int tick(void *arg): the player after the call; ret is the value
\* returned, and a return of 0 takes the event off the mixer.
tick(x, e) ==
    LET x0 == tick_sync([x EXCEPT !.log = <<>>])
    IN IF x0.stop_requested
       THEN [stop(x0) EXCEPT !.ret = 0, !.scheduled = FALSE]
       ELSE LET x1 == xm_tick(tick_seek(x0), e)
            IN IF ~x1.looping /\ x1.ctx.loop_count > 0
               THEN [stop(x1) EXCEPT !.ret = 0, !.scheduled = FALSE]
               ELSE [tick_channels(x1, 0) EXCEPT !.ret = e.delay]

\* xm64player_tell: <<patidx, row>>
xm64player_tell(x) ==
    LET has_pending_seek == x.seek.patidx >= 0
        pos == xm_get_position(x)
    IN <<IF has_pending_seek THEN x.seek.patidx ELSE pos[1],
         IF has_pending_seek THEN x.seek.row ELSE pos[2]>>

\* xm64player_seek
xm64player_seek(x, patidx, row, tk) ==
    [x EXCEPT !.seek = [patidx |-> patidx, row |-> row, tick |-> tk],
              !.nreq = @ + 1]

\* xm64player_stop
xm64player_stop(x) == [x EXCEPT !.stop_requested = TRUE]

\* xm64player_play
xm64player_play(x, first_ch) ==
    IF ~x.playing
    THEN [x EXCEPT !.scheduled = TRUE, !.first_ch = first_ch,
                   !.playing = TRUE]
    ELSE x

EngineSteps ==
    {[ch |-> ch, looped |-> lp, adv |-> adv, delay |-> 1] :
        ch \in [XmChans -> {[sample |-> 0, pos |-> 0],
                            [sample |-> 1, pos |-> 0],
                            [sample |-> 1, pos |-> -1]}],
        lp \in BOOLEAN, adv \in BOOLEAN}

\* The player after xm64player_open: no pending seek, looping, not playing.
InitTick ==
    /\ buf = samplebuffer_init(0, 8, 0)
    /\ err = ""
    /\ last = NoObs
    /\ wav = NoWav
    /\ cod = [pc |-> "tick", n |-> 0, playing |-> FALSE, stop_requested |-> FALSE,
              looping |-> TRUE, first_ch |-> 0, seek |-> NoSeek,
              scheduled |-> FALSE,
              ctx |-> [idx |-> 0, row |-> 0, tick |-> 0, loop_count |-> 0,
                       ch |-> [i \in XmChans |-> [sample |-> 0, pos |-> 0]]],
              mix |-> [c \in TickMixChans |-> [wave |-> 0, pos |-> 0]],
              log |-> <<>>, ret |-> -1, nreq |-> 0, nseek |-> 0,
              op |-> "open", was |-> [stop |-> FALSE, seek |-> NoSeek,
                                      told |-> <<0, 0>>, sounding |-> {}]]

\* What the call about to run finds: the requests, what tell would say and
\* the mixer channels that play.
TickWas(x) ==
    [stop |-> x.stop_requested, seek |-> x.seek, told |-> xm64player_tell(x),
     sounding |-> {c \in TickMixChans : x.mix[c].wave # 0}]

\* The player after one more call of the run.
Called(x, op) == [x EXCEPT !.op = op, !.was = TickWas(cod), !.n = cod.n + 1]

TkPlay(first_ch) ==
    /\ cod.pc = "tick"
    /\ cod.n < TickSteps
    /\ ~cod.playing
    /\ cod' = Called(xm64player_play(cod, first_ch), "play")
    /\ UNCHANGED <<buf, err, last, wav>>

TkSetLoop(loop) ==
    /\ cod.pc = "tick"
    /\ cod.n < TickSteps
    /\ cod.looping # loop
    /\ cod' = Called([cod EXCEPT !.looping = loop], "set_loop")
    /\ UNCHANGED <<buf, err, last, wav>>

TkStop ==
    /\ cod.pc = "tick"
    /\ cod.n < TickSteps
    /\ ~cod.stop_requested
    /\ cod' = Called(xm64player_stop(cod), "stop")
    /\ UNCHANGED <<buf, err, last, wav>>

TkSeek(patidx, row, tk) ==
    /\ cod.pc = "tick"
    /\ cod.n < TickSteps
    /\ cod.nreq < MaxSeeks
    /\ cod' = Called(xm64player_seek(cod, patidx, row, tk), "seek")
    /\ UNCHANGED <<buf, err, last, wav>>

\* The mixer fires the event.
TkTick(e) ==
    /\ cod.pc = "tick"
    /\ cod.n < TickSteps
    /\ cod.scheduled
    /\ cod' = Called(tick(cod, e), "tick")
    /\ UNCHANGED <<buf, err, last, wav>>

\* The mixer plays: a playing channel moves on or reaches the end of its
\* waveform.
TkMixerRun(c, ends) ==
    /\ cod.pc = "tick"
    /\ cod.n < TickSteps
    /\ cod.mix[c].wave # 0
    /\ cod.mix[c].pos = 0 \/ ends
    /\ cod' = Called([cod EXCEPT !.mix[c] =
                                  IF ends THEN [wave |-> 0, pos |-> 0]
                                  ELSE [@ EXCEPT !.pos = 1]], "mixer")
    /\ UNCHANGED <<buf, err, last, wav>>

NextTick ==
    \/ \E first_ch \in 0..MaxFirstCh : TkPlay(first_ch)
    \/ \E loop \in BOOLEAN : TkSetLoop(loop)
    \/ TkStop
    \/ \E patidx \in 0..MaxPat, row \in 0..MaxRow, tk \in 0..1 :
          TkSeek(patidx, row, tk)
    \/ \E e \in EngineSteps : TkTick(e)
    \/ \E c \in TickMixChans, ends \in BOOLEAN : TkMixerRun(c, ends)

SpecTick == InitTick /\ [][NextTick]_vars

\* The last call of the run was a tick.
Ticked == cod.pc = "tick" /\ cod.op = "tick"

PlayerChans == {cod.first_ch + i : i \in XmChans}

\* C21: the tick that finds a stop request stops every channel of the
\* player, first_ch to first_ch + num_channels - 1, and does nothing else:
\* it makes no engine step, leaves the player not playing with the request
\* cleared, and returns 0, which takes the tick event off the mixer.
C21_StopRequestStopsPlayer ==
    (Ticked /\ cod.was.stop) =>
        /\ cod.log = [k \in 1..NumXmChannels |-> <<"stop", cod.first_ch + k - 1>>]
        /\ \A c \in PlayerChans : cod.mix[c].wave = 0
        /\ ~cod.playing
        /\ ~cod.stop_requested
        /\ cod.ret = 0
        /\ ~cod.scheduled

\* A player whose channels were sounding was stopped by a tick.
C21_Witness ==
    /\ Ticked
    /\ cod.was.stop
    /\ cod.was.sounding # {}
    /\ cod.was.sounding \subseteq PlayerChans
    /\ cod.first_ch = 1
    /\ cod.ret = 0

\* The xm_seek calls in the log of the last tick.
SeekCalls == {k \in 1..Len(cod.log) : cod.log[k][1] = "seek"}

\* What a tick that applies the request r does before the engine step.
SeekPrefix(r) ==
    <<<<"seek", r.patidx, r.row, r.tick>>, <<"zero">>>>
    \o [k \in 1..NumXmChannels |-> <<"stop", cod.first_ch + k - 1>>]
    \o <<<<"engine">>>>

\* C22 (as the code behaves): the first tick after xm64player_seek that
\* does not find a stop request applies the seek exactly once: it calls
\* xm_seek with the triple of the latest request, clears the request, zeroes
\* every channel's sample_position and stops every channel, all before the
\* engine step; a tick that finds no request does not seek.  A tick that
\* finds a stop request as well only stops the player and leaves the seek
\* pending.  No more xm_seek calls are ever made than seeks were requested.
C22_SeekAppliedOnce ==
    /\ (Ticked /\ ~cod.was.stop /\ cod.was.seek.patidx >= 0) =>
          /\ Len(cod.log) >= NumXmChannels + 3
          /\ SubSeq(cod.log, 1, NumXmChannels + 3) = SeekPrefix(cod.was.seek)
          /\ SeekCalls = {1}
          /\ cod.seek.patidx = -1
    /\ (Ticked /\ (cod.was.stop \/ cod.was.seek.patidx < 0)) =>
          SeekCalls = {}
    /\ (Ticked /\ cod.was.stop) => cod.seek = cod.was.seek
    /\ cod.pc = "tick" => cod.nseek <= cod.nreq

\* C22 (as stated): the next tick after a seek request calls the engine
\* seek with the recorded triple and clears the request.
C22_SeekAppliedByNextTick ==
    (Ticked /\ cod.was.seek.patidx >= 0) =>
        /\ SeekCalls = {1}
        /\ cod.log[1] = <<"seek", cod.was.seek.patidx, cod.was.seek.row,
                          cod.was.seek.tick>>
        /\ cod.seek.patidx = -1

\* Two seeks were requested before a tick, which applied the second one
\* while channels were sounding.
C22_Witness ==
    /\ Ticked
    /\ ~cod.was.stop
    /\ cod.was.seek = [patidx |-> 1, row |-> 0, tick |-> 1]
    /\ cod.nreq = 2
    /\ cod.nseek = 1
    /\ cod.was.sounding # {}
    /\ cod.ctx.idx = 1

\* xm64player_tell while a seek is pending reports the requested pattern
\* index and row, not the position the engine is at; with no request
\* pending it reports the engine's position.
TellPendingSeek ==
    cod.pc = "tick" =>
        xm64player_tell(cod) =
            IF cod.seek.patidx >= 0 THEN <<cod.seek.patidx, cod.seek.row>>
            ELSE <<cod.ctx.idx, cod.ctx.row>>

\* After a tick that applied seek(p, r, 0), tell reports (p, r) exactly when
\* the engine step of that tick left the row where xm_seek had put it.
TellAfterSeekTick ==
    (Ticked /\ ~cod.was.stop /\ cod.was.seek.patidx >= 0
       /\ cod.was.seek.tick = 0) =>
        xm64player_tell(cod) = <<cod.was.seek.patidx, cod.was.seek.row>>

\* The last tick reached its per-channel update (it did not return from
\* stop()).
ChannelsUpdated == Ticked /\ cod.ret # 0

\* Where the engine step stands in the log of the last tick.
EngineAt == CHOOSE k \in 1..Len(cod.log) : cod.log[k] = <<"engine">>

\* C24: after a tick that reached the per-channel update, every channel
\* whose current sample is NULL or whose sample_position is negative had
\* mixer_ch_stop called on its mixer channel after the engine step, plays
\* nothing, and got no play, position, frequency or volume command in that
\* tick.
C24_NullSampleChannelStopped ==
    ChannelsUpdated =>
        \A i \in XmChans :
            (cod.ctx.ch[i].sample = 0 \/ cod.ctx.ch[i].pos < 0) =>
                /\ cod.mix[cod.first_ch + i].wave = 0
                /\ \E k \in (EngineAt + 1)..Len(cod.log) :
                      cod.log[k] = <<"stop", cod.first_ch + i>>
                /\ \A k \in 1..Len(cod.log) :
                      cod.log[k][1] \in {"play", "pos", "freq", "vol"}
                         => cod.log[k][2] # cod.first_ch + i

\* A tick left one channel without a sample on a mixer channel that was
\* sounding before, and started the other channel.
C24_Witness ==
    /\ ChannelsUpdated
    /\ cod.ctx.ch[0].sample = 0
    /\ cod.first_ch \in cod.was.sounding
    /\ cod.mix[cod.first_ch].wave = 0
    /\ cod.ctx.ch[1].sample # 0 /\ cod.ctx.ch[1].pos >= 0
    /\ cod.mix[cod.first_ch + 1].wave # 0

(***************************************************************************)
(* tools/common/binout.c: named placeholders.  The output file is the      *)
(* sequence of its bytes (always written at the end, except by the _at     *)
(* writers, which restore the position); hash maps a name to its           *)
(* placeholder_data [offset, p64, p32, p16, p8]: the value once set (-1    *)
(* before) and the file offsets of the pending references of each width.   *)
(* refs remembers every reference emitted: its name, its width in bytes    *)
(* and its offset in the file.  A name is set once, and a run is BinSteps  *)
(* calls long.                                                             *)
(***************************************************************************)
MaxBinLen == 16         \* bytes in the output file
BinSteps == 4           \* calls in one run

BinNames == {"a", "b"}
BinWidths == {1, 2, 4, 8}

\* _wconv followed by the big-endian writers _w8.._w64: the bytes written
\* for value v at width w bytes; <<>> stands for the assertion failure on a
\* value that does not fit.  The values of the model are file offsets below
\* 2^31, so the bytes above the low four are 0.
w_bytes(v, w) ==
    IF w < 4 /\ v \div (256 ^ w) # 0 THEN <<>>
    ELSE [k \in 1..w |-> IF w - k >= 4 THEN 0
                         ELSE (v \div (256 ^ (w - k))) % 256]

\* _w8_at.._w64_at: w bytes of v stored at offset pos.
w_at(file, pos, v, w) ==
    [k \in 1..Max(Len(file), pos + w) |->
        IF k > pos /\ k <= pos + w THEN w_bytes(v, w)[k - pos]
        ELSE file[k]]

RECURSIVE patch_all(_, _, _, _)
patch_all(file, pending, v, w) ==
    IF pending = <<>> THEN file
    ELSE patch_all(w_at(file, Head(pending), v, w), Tail(pending), v, w)

\* __placeholder_make: [file, data].  The pending 64-bit references are
\* patched with w32_at.
placeholder_make(file, data, offset) ==
    [file |-> patch_all(patch_all(patch_all(patch_all(file,
                  data.p64, offset, 4), data.p32, offset, 4),
                  data.p16, offset, 2), data.p8, offset, 1),
     data |-> [offset |-> offset, p64 |-> <<>>, p32 |-> <<>>,
               p16 |-> <<>>, p8 |-> <<>>]]

\* __w8_placeholder_named .. __w64_placeholder_named: [file, data]
placeholder_named(file, data, w) ==
    IF data.offset = -1
    THEN [file |-> file \o w_bytes(0, w),
          data |-> [data EXCEPT
                      !.p64 = IF w = 8 THEN Append(@, Len(file)) ELSE @,
                      !.p32 = IF w = 4 THEN Append(@, Len(file)) ELSE @,
                      !.p16 = IF w = 2 THEN Append(@, Len(file)) ELSE @,
                      !.p8  = IF w = 1 THEN Append(@, Len(file)) ELSE @]]
    ELSE [file |-> file \o w_bytes(data.offset, w), data |-> data]

\* __placeholder_get_data on a name not seen yet
NoPlaceholder ==
    [offset |-> -1, p64 |-> <<>>, p32 |-> <<>>, p16 |-> <<>>, p8 |-> <<>>]

InitBin ==
    /\ buf = samplebuffer_init(0, 8, 0)
    /\ err = ""
    /\ last = NoObs
    /\ wav = NoWav
    /\ cod = [pc |-> "bin", n |-> 0, file |-> <<>>,
              hash |-> [nm \in BinNames |-> NoPlaceholder], refs |-> {}]

\* w8_placeholderf .. w64_placeholderf
BinRef(nm, w) ==
    /\ cod.pc = "bin"
    /\ cod.n < BinSteps
    /\ Len(cod.file) + w <= MaxBinLen
    /\ \E r \in {placeholder_named(cod.file, cod.hash[nm], w)} :
          cod' = [cod EXCEPT !.n = @ + 1, !.file = r.file, !.hash[nm] = r.data,
                             !.refs = @ \cup {[name |-> nm, width |-> w,
                                               pos |-> Len(cod.file),
                                               early |-> cod.hash[nm].offset
                                                         = -1]}]
    /\ UNCHANGED <<buf, err, last, wav>>

\* placeholder_set: the value is the current file offset.
BinSet(nm) ==
    /\ cod.pc = "bin"
    /\ cod.n < BinSteps
    /\ cod.hash[nm].offset = -1
    /\ \E r \in {placeholder_make(cod.file, cod.hash[nm], Len(cod.file))} :
          cod' = [cod EXCEPT !.n = @ + 1, !.file = r.file, !.hash[nm] = r.data]
    /\ UNCHANGED <<buf, err, last, wav>>

\* w8: one byte of payload.
BinByte ==
    /\ cod.pc = "bin"
    /\ cod.n < BinSteps
    /\ Len(cod.file) + 1 <= MaxBinLen
    /\ cod' = [cod EXCEPT !.n = @ + 1, !.file = @ \o w_bytes(255, 1)]
    /\ UNCHANGED <<buf, err, last, wav>>

NextBin ==
    \/ \E nm \in BinNames, w \in BinWidths : BinRef(nm, w)
    \/ \E nm \in BinNames : BinSet(nm)
    \/ BinByte

SpecBin == InitBin /\ [][NextBin]_vars

\* Whether the w bytes at offset pos of the file are the big-endian
\* number v.
HoldsValue(file, pos, w, v) == SubSeq(file, pos + 1, pos + w) = w_bytes(v, w)

\* C25: once a name is set, every reference to it, whether emitted before
\* the set (back-patched) or after it (written directly), holds the value
\* that was set, big-endian, at the full width of the reference.
C25_ReferencesHoldSetValue ==
    cod.pc = "bin" =>
        \A r \in cod.refs :
            cod.hash[r.name].offset # -1 =>
                HoldsValue(cod.file, r.pos, r.width, cod.hash[r.name].offset)

\* The same for every reference but the 64-bit ones emitted before the set.
BinNarrowOrLate ==
    cod.pc = "bin" =>
        \A r \in cod.refs :
            (cod.hash[r.name].offset # -1 /\ ~(r.width = 8 /\ r.early)) =>
                HoldsValue(cod.file, r.pos, r.width, cod.hash[r.name].offset)

\* ---------------------------------------------------------------------
\* audioconv64: one invocation of the converter. main() walks argv from
\* left to right; an option changes a global flag, a positional argument
\* is converted at once with the flags as they are at that moment.
\* cod = [pc, n, flag_wav_compress, flag_xm_compress_samples,
\*        flag_wav_compress_vadpcm_huffman, given, out]
\*   given : a huffman= option has been parsed
\*   out   : one record per waveform written, in order
\* ---------------------------------------------------------------------
ConvSteps == 5

\* Codecs both --wav-compress and --xm-compress accept (none, vadpcm).
ConvCodecs == {0, 1}

\* The optional huffman= flag after the codec: absent, true or false.
ConvHuffOpts == {"absent", "true", "false"}

\* wav64_write with the vadpcm codec tests the global as a C truth value.
wav64_write(kind, compress, huffman) ==
    [kind |-> kind, compress |-> compress,
     huffman |-> (compress = 1 /\ huffman # 0)]

\* xm_convert: "deactivate huffman by default".
xm_default_huffman(h) == IF h < 0 THEN 0 ELSE h

\* wav_convert: "activate huffman by default".
wav_default_huffman(h) == IF h < 0 THEN 1 ELSE h

InitConv ==
    /\ cod = [pc |-> "conv", n |-> 0,
              flag_wav_compress |-> 1,
              flag_xm_compress_samples |-> 1,
              flag_wav_compress_vadpcm_huffman |-> -1,
              given |-> FALSE,
              out |-> <<>>]
    /\ buf = samplebuffer_init(0, 8, 0)
    /\ err = ""
    /\ last = NoObs
    /\ wav = NoWav

\* --wav-compress / --xm-compress <codec>[,huffman=<bool>]
ConvOption(xm, codec, huff) ==
    /\ cod.pc = "conv"
    /\ cod.n < ConvSteps
    /\ \E c1 \in {IF xm THEN [cod EXCEPT !.flag_xm_compress_samples = codec]
                        ELSE [cod EXCEPT !.flag_wav_compress = codec]} :
          cod' = IF huff = "absent"
                 THEN [c1 EXCEPT !.n = @ + 1]
                 ELSE IF codec # 1
                 THEN [c1 EXCEPT !.n = @ + 1, !.pc = "conv_exit"]
                 ELSE [c1 EXCEPT !.n = @ + 1, !.given = TRUE,
                          !.flag_wav_compress_vadpcm_huffman =
                              IF huff = "true" THEN 1 ELSE 0]
    /\ UNCHANGED <<buf, err, last, wav>>

\* A positional .wav argument: wav_convert, then wav64_write.
ConvWav ==
    /\ cod.pc = "conv"
    /\ cod.n < ConvSteps
    /\ \E h \in {wav_default_huffman(cod.flag_wav_compress_vadpcm_huffman)} :
          cod' = [cod EXCEPT !.n = @ + 1,
                     !.flag_wav_compress_vadpcm_huffman = h,
                     !.out = Append(@, wav64_write("wav64",
                                 cod.flag_wav_compress, h))]
    /\ UNCHANGED <<buf, err, last, wav>>

\* A positional .xm argument: xm_convert, whose samples go through
\* xm_save_wave64 and wav64_write.
ConvXm ==
    /\ cod.pc = "conv"
    /\ cod.n < ConvSteps
    /\ \E h \in {xm_default_huffman(cod.flag_wav_compress_vadpcm_huffman)} :
          cod' = [cod EXCEPT !.n = @ + 1,
                     !.flag_wav_compress_vadpcm_huffman = h,
                     !.out = Append(@, wav64_write("xm64",
                                 cod.flag_xm_compress_samples, h))]
    /\ UNCHANGED <<buf, err, last, wav>>

NextConv ==
    \/ \E xm \in BOOLEAN, codec \in ConvCodecs, huff \in ConvHuffOpts :
          ConvOption(xm, codec, huff)
    \/ ConvWav
    \/ ConvXm

SpecConv == InitConv /\ [][NextConv]_vars

ConvRun == cod.pc \in {"conv", "conv_exit"}

\* C26: with no huffman= option given, every VADPCM waveform of a WAV64
\* output is Huffman compressed and every one of an XM64 output is not,
\* whatever files the invocation has converted before it.
C26_HuffmanDefaultPerKind ==
    (ConvRun /\ ~cod.given) =>
        \A i \in 1..Len(cod.out) :
            cod.out[i].compress = 1 =>
                (cod.out[i].huffman <=> cod.out[i].kind = "wav64")

\* What the code does instead: the first conversion of the invocation
\* settles the default for all of them.
ConvFirstDecides ==
    (ConvRun /\ ~cod.given) =>
        \A i \in 1..Len(cod.out) :
            cod.out[i].compress = 1 =>
                (cod.out[i].huffman <=> cod.out[1].kind = "wav64")

\* ---------------------------------------------------------------------
\* Ping-pong loops in the converter: the sample pre-processing loop of
\* xm_convert and the smpl-chunk handling of read_wav.
\* A source sample is the sequence 0 .. n-1 of its sample identities; an
\* XM sample is kept as bytes, each byte [s, b] being byte b of sample s,
\* because the converter reverses 16-bit samples bytewise.
\* cod = [pc, res] where res records the last conversion.
\* ---------------------------------------------------------------------
MaxPingLen == 4

XM64_SHORT_ODD_LOOP_LENGTH == 1024

XmLoopTypes == {"XM_NO_LOOP", "XM_FORWARD_LOOP", "XM_PING_PONG_LOOP"}

\* The bytes of an n-sample waveform at bps bytes per sample.
xm_sample_bytes(n, bps) ==
    [i \in 1..(n * bps) |-> [s |-> (i - 1) \div bps, b |-> (i - 1) % bps]]

\* The sample identities a byte sequence decodes to; -1 for a 16-bit
\* sample whose two bytes are not the low and high byte of one sample.
samples_of(data8, bps) ==
    [i \in 1..(Len(data8) \div bps) |->
        IF bps = 1 THEN data8[i].s
        ELSE IF /\ data8[2 * i - 1].s = data8[2 * i].s
                /\ data8[2 * i - 1].b = 0
                /\ data8[2 * i].b = 1
             THEN data8[2 * i].s
             ELSE -1]

SeqReverse(q) == [i \in 1..Len(q) |-> q[Len(q) + 1 - i]]

\* C index idx ^ 1.
Xor1(idx) == IF idx % 2 = 0 THEN idx + 1 ELSE idx - 1

\* for (x = 0; x < loop_length; x++)
\*     *out++ = s->data8[(loop_end-x-1) ^ (bps>>1)];
xm_pingpong_tail(data8, bps, loop_end, loop_length) ==
    [x \in 1..loop_length |->
        IF bps = 2 THEN data8[Xor1(loop_end - (x - 1) - 1) + 1]
                   ELSE data8[(loop_end - (x - 1) - 1) + 1]]

\* One iteration of the pre-processing loop of xm_convert over a sample
\* s = [bits, length, loop_type, loop_start, loop_length, loop_end, data8].
xm_preprocess(s0, flag_xm_8bit) ==
    LET s == IF flag_xm_8bit /\ s0.bits = 16
             THEN [s0 EXCEPT !.bits = 8,
                      !.data8 = [k \in 1..s0.length |-> s0.data8[2 * k]]]
             ELSE s0
        bps == s.bits \div 8
        length == s.length * bps
        loop_length == s.loop_length * bps
        loop_end == s.loop_end * bps
        r == CASE s.loop_type = "XM_NO_LOOP" ->
                    [sout |-> SubSeq(s.data8, 1, length),
                     loop_length |-> loop_length, loop_end |-> loop_end,
                     loop_type |-> s.loop_type]
               [] s.loop_type = "XM_FORWARD_LOOP" ->
                    IF /\ bps = 1
                       /\ loop_length % 2 = 1
                       /\ loop_length < XM64_SHORT_ODD_LOOP_LENGTH
                    THEN [sout |-> SubSeq(s.data8, 1, loop_end) \o
                                   SubSeq(s.data8, loop_end - loop_length + 1,
                                          loop_end),
                          loop_length |-> loop_length * 2,
                          loop_end |-> loop_end + loop_length,
                          loop_type |-> s.loop_type]
                    ELSE [sout |-> SubSeq(s.data8, 1, loop_end),
                          loop_length |-> loop_length, loop_end |-> loop_end,
                          loop_type |-> s.loop_type]
               [] s.loop_type = "XM_PING_PONG_LOOP" ->
                    [sout |-> SubSeq(s.data8, 1, loop_end) \o
                              xm_pingpong_tail(s.data8, bps, loop_end,
                                               loop_length),
                     loop_length |-> loop_length * 2,
                     loop_end |-> loop_end + loop_length,
                     loop_type |-> "XM_FORWARD_LOOP"]
    IN [s EXCEPT !.length = Len(r.sout) \div bps,
                 !.loop_length = r.loop_length \div bps,
                 !.loop_end = r.loop_end \div bps,
                 !.loop_type = r.loop_type,
                 !.data8 = r.sout]

\* read_wav on a file of total frames at bitsPerSample bits whose smpl
\* chunk, when has_loop, carries one loop [first, lastf] of the given type
\* (0 forward, 1 ping-pong, anything else unsupported).
read_wav(total, bitsPerSample, has_loop, type, first, lastf) ==
    LET samples == [i \in 1..total |-> i - 1]
        cnt == IF has_loop /\ total > lastf + 1 THEN lastf + 1 ELSE total
        last_offset == lastf \div (bitsPerSample \div 8)
        first_offset == first \div (bitsPerSample \div 8)
        loop_len == last_offset - first_offset + 1
    IN IF ~has_loop
       THEN [samples |-> samples, cnt |-> cnt, looping |-> FALSE,
             loopOffset |-> 0]
       ELSE IF type = 1
       THEN [samples |-> SubSeq(samples, 1, cnt) \o
                         [i \in 1..loop_len |->
                             samples[(last_offset - (i - 1)) + 1]],
             cnt |-> cnt + loop_len, looping |-> TRUE,
             loopOffset |-> (cnt + loop_len) - loop_len]
       ELSE [samples |-> samples, cnt |-> cnt, looping |-> TRUE,
             loopOffset |-> first]

NoPing == [tool |-> "none"]

InitPing ==
    /\ buf = samplebuffer_init(0, 8, 0)
    /\ err = ""
    /\ last = NoObs
    /\ wav = NoWav
    /\ cod = [pc |-> "ping", res |-> NoPing]

\* xm_convert pre-processes one sample of the module. The loader gives
\* loop_end = loop_start + loop_length within the sample.
PingXm(n, bits, type, loop_start, loop_length, flag_xm_8bit) ==
    /\ cod.pc = "ping"
    /\ \E s0 \in {[bits |-> bits, length |-> n, loop_type |-> type,
                   loop_start |-> loop_start, loop_length |-> loop_length,
                   loop_end |-> loop_start + loop_length,
                   data8 |-> xm_sample_bytes(n, bits \div 8)]} :
       \E s \in {xm_preprocess(s0, flag_xm_8bit)} :
          cod' = [cod EXCEPT !.res =
                    [tool |-> "xm",
                     ping |-> (type = "XM_PING_PONG_LOOP"),
                     bits |-> bits,
                     first |-> loop_start, len |-> loop_length,
                     loop_type |-> s.loop_type,
                     looping |-> (s.loop_type # "XM_NO_LOOP"),
                     samples |-> samples_of(s.data8, s.bits \div 8),
                     loop_start |-> s.loop_start,
                     loop_length |-> s.loop_length]]
    /\ UNCHANGED <<buf, err, last, wav>>

\* read_wav on one input file; a WAV64 loops from loopOffset to cnt.
PingWav(total, bits, has_loop, type, first, lastf) ==
    /\ cod.pc = "ping"
    /\ \E w \in {read_wav(total, bits, has_loop, type, first, lastf)} :
          cod' = [cod EXCEPT !.res =
                    [tool |-> "wav",
                     ping |-> (has_loop /\ type = 1),
                     bits |-> bits,
                     first |-> first, len |-> lastf - first + 1,
                     loop_type |-> IF w.looping THEN "XM_FORWARD_LOOP"
                                                ELSE "XM_NO_LOOP",
                     looping |-> w.looping,
                     samples |-> w.samples,
                     loop_start |-> w.loopOffset,
                     loop_length |-> w.cnt - w.loopOffset]]
    /\ UNCHANGED <<buf, err, last, wav>>

NextPing ==
    \/ \E n \in 1..MaxPingLen, bits \in {8, 16}, type \in XmLoopTypes,
          flag_xm_8bit \in BOOLEAN :
          \E loop_start \in 0..(n - 1) :
          \E loop_length \in 1..(n - loop_start) :
             PingXm(n, bits, type, loop_start, loop_length, flag_xm_8bit)
    \/ \E total \in 1..MaxPingLen, bits \in {8, 16}, has_loop \in BOOLEAN,
          type \in 0..2 :
          \E lastf \in 0..(total - 1) :
          \E first \in 0..lastf :
             PingWav(total, bits, has_loop, type, first, lastf)

SpecPing == InitPing /\ [][NextPing]_vars

PingDone == cod.pc = "ping" /\ cod.res.tool # "none"

\* The original loop segment of the last conversion, as sample identities.
PingSegment == [i \in 1..cod.res.len |-> cod.res.first + i - 1]

\* The loop body the converted sample carries.
PingBody ==
    SubSeq(cod.res.samples, cod.res.loop_start + 1,
           cod.res.loop_start + cod.res.loop_length)

PingUnrolled ==
    /\ cod.res.loop_type = "XM_FORWARD_LOOP"
    /\ cod.res.loop_length = 2 * cod.res.len
    /\ cod.res.loop_start + cod.res.loop_length <= Len(cod.res.samples)
    /\ PingBody = PingSegment \o SeqReverse(PingSegment)

\* C27: a sample that came in with a ping-pong loop, from an XM module or
\* from a WAV file, goes out with a forward loop whose body is the
\* original loop segment followed by that segment reversed, and no sample
\* goes out with a ping-pong loop type.
C27_PingPongUnrolled ==
    PingDone =>
        /\ cod.res.loop_type # "XM_PING_PONG_LOOP"
        /\ cod.res.ping => PingUnrolled

\* The XM converter alone does unroll as described.
PingXmUnrolled ==
    (PingDone /\ cod.res.tool = "xm") =>
        /\ cod.res.loop_type # "XM_PING_PONG_LOOP"
        /\ cod.res.ping => PingUnrolled

\* What read_wav leaves for a ping-pong loop: the forward loop starts
\* after the original segment, so its body is the appended reversal only
\* (and for 16-bit files the reversal of the samples at half the offsets).
PingWavLoopsReversalOnly ==
    (PingDone /\ cod.res.tool = "wav" /\ cod.res.ping) =>
        /\ cod.res.loop_start = cod.res.first + cod.res.len
        /\ cod.res.loop_length <= cod.res.len
        /\ cod.res.bits = 8 => PingBody = SeqReverse(PingSegment)

(***************************************************************************)
(* Compaction inside append, seen from the consumer.                       *)
(*                                                                         *)
(* The same buffer-with-bytes model as above on a smaller region, with     *)
(* gets of several lengths and a read callback that may push fewer frames  *)
(* than asked, exactly as many, or one 8-byte word more.  cod keeps:       *)
(*   need   the wpos of the most recent get (-1: none yet)                 *)
(*   moved  frames the append of the last operation dropped by compacting  *)
(*   pmoved the same for the operation before it                           *)
(*   hit    the last operation was a get wholly inside what the operation  *)
(*          before it left resident from need on                           *)
(***************************************************************************)
KeepWords == 4
KeepSteps == 4

KeepBytes == 8 * KeepWords

\* Frames the compaction inside samplebuffer_append(b, wlen) drops.
append_dropped(b, wlen) ==
    IF b.widx + wlen > b.size /\ b.widx >= b.ridx
    THEN discard_idx(b, b.wpos + append_rollback(b))
    ELSE 0

KeepNote(c, mem, need, moved, hit) ==
    [pc |-> "keep", n |-> c.n + 1, mem |-> mem, need |-> need,
     moved |-> moved, pmoved |-> c.moved, hit |-> hit]

InitKeep ==
    /\ \E bits \in {8, 16, 32} :
          buf = samplebuffer_set_bps(samplebuffer_init(0, KeepBytes, 0),
                                     bits).buf
    /\ err = ""
    /\ last = NoObs
    /\ wav = NoWav
    /\ cod = [pc |-> "keep", n |-> 0,
              mem |-> [a \in 0..(KeepBytes - 1) |-> -1],
              need |-> -1, moved |-> 0, pmoved |-> 0, hit |-> FALSE]

\* samplebuffer_get; the callback appends k frames in one append call,
\* k being half of, all of, or one 8-byte word more than what it was
\* asked for.
KeepGet(wpos, wlen, deliver) ==
    /\ cod.pc = "keep"
    /\ err = ""
    /\ cod.n < KeepSteps
    /\ UNCHANGED wav
    /\ \E p \in {get_plan(buf, wpos, wlen)} :
          /\ deliver # "all" => p.call
          /\ \E k \in {CASE deliver = "half" -> p.rdlen \div 2
                         [] deliver = "all" -> p.rdlen
                         [] deliver = "more" ->
                              p.rdlen + Shr(8, SAMPLES_BPS_SHIFT(buf))} :
             \E c \in {IF p.call /\ k > 0
                        THEN ring_append(p.buf, cod.mem, k, p.rdpos)
                        ELSE [buf |-> p.buf, data |-> -1, err |-> p.err,
                              mem |-> cod.mem]} :
             \E f \in {IF c.err = ""
                        THEN get_finish(c.buf, wpos, wlen, p.call)
                        ELSE [buf |-> c.buf, ret |-> -1, wlen |-> wlen,
                              err |-> c.err]} :
                /\ buf' = f.buf
                /\ err' = f.err
                /\ last' = [op |-> "get", data |-> c.data, called |-> p.call,
                            rdpos |-> p.rdpos, rdlen |-> p.rdlen,
                            seeking |-> p.seeking,
                            got |-> IF p.call THEN k ELSE 0,
                            req |-> wlen, wpos |-> wpos, wlen |-> f.wlen,
                            ret |-> f.ret]
                /\ cod' = KeepNote(cod, c.mem, wpos,
                              IF p.call /\ k > 0
                              THEN append_dropped(p.buf, k) ELSE 0,
                              /\ cod.need >= 0
                              /\ wpos >= cod.need
                              /\ wpos >= buf.wpos
                              /\ wpos + wlen <= buf.wpos + buf.widx)

\* samplebuffer_append called outside a get (a producer running ahead).
KeepAppend(wlen) ==
    /\ cod.pc = "keep"
    /\ err = ""
    /\ cod.n < KeepSteps
    /\ UNCHANGED wav
    /\ \E a \in {ring_append(buf, cod.mem, wlen, -1)} :
          /\ buf' = a.buf
          /\ err' = a.err
          /\ last' = [NoObs EXCEPT !.op = "append", !.data = a.data,
                                   !.req = wlen]
          /\ cod' = KeepNote(cod, a.mem, cod.need,
                             append_dropped(buf, wlen), FALSE)

KeepDiscard(wpos) ==
    /\ cod.pc = "keep"
    /\ err = ""
    /\ cod.n < KeepSteps
    /\ UNCHANGED wav
    /\ buf' = samplebuffer_discard(buf, wpos)
    /\ err' = ""
    /\ last' = [NoObs EXCEPT !.op = "discard", !.wpos = wpos]
    /\ cod' = KeepNote(cod, discard_copy(buf, wpos, cod.mem), cod.need, 0,
                       FALSE)

NextKeep ==
    \/ \E wpos \in {0, 3, 10, 12, 16, 27}, wlen \in {4, 8, 16},
          deliver \in {"half", "all", "more"} : KeepGet(wpos, wlen, deliver)
    \/ \E wlen \in {8, 16} : KeepAppend(wlen)
    \/ \E wpos \in {4, 9} : KeepDiscard(wpos)

SpecKeep == InitKeep /\ [][NextKeep]_vars

KeepRun == cod.pc = "keep"

\* One step in which the append of the operation compacted: the frames
\* from the most recent get's wpos on, and those back to the 8-byte
\* boundary before it, are still in the window with the bytes they had.
KeepStep ==
    (KeepRun /\ cod'.moved > 0) =>
        LET bps == SAMPLES_BPS_SHIFT(buf)
            end == buf.wpos + buf.widx
            U   == Shr(8, bps)
            ridx == cod'.need - buf.wpos
        IN /\ cod'.need >= buf.wpos
           /\ buf'.wpos = buf.wpos + (ridx - (ridx % U))
           /\ buf'.wpos <= cod'.need
           /\ buf'.wpos + buf'.widx >= end
           /\ \A q \in buf'.wpos..(end - 1), k \in 0..(Shl(1, bps) - 1) :
                 cod'.mem[Shl(q - buf'.wpos, bps) + k]
                    = cod.mem[Shl(q - buf.wpos, bps) + k]

\* One step that is a get for frames already resident from the most recent
\* get's wpos on, right after an operation whose append compacted: the
\* callback is not called and the pointer returned leads to those frames.
LaterGetStep ==
    (KeepRun /\ cod.moved > 0 /\ cod'.hit) =>
        LET bps == SAMPLES_BPS_SHIFT(buf)
        IN /\ err' = ""
           /\ ~last'.called
           /\ last'.wlen = last'.req
           /\ cod'.mem = cod.mem
           /\ \A i \in 0..(last'.wlen - 1), k \in 0..(Shl(1, bps) - 1) :
                 cod'.mem[last'.ret + Shl(i, bps) + k]
                    = FrameByte(last'.wpos + i, k)

\* C28: compaction inside append drops no frame at or after the wpos of
\* the most recent get (rounded down to an 8-byte boundary) and keeps the
\* contents of those frames, and a later get for frames already decoded
\* from that position on is served without a call to the read callback.
C28_CompactionKeepsNeeded == [][KeepStep /\ LaterGetStep]_vars

\* A get was served from the buffer right after an append that dropped
\* frames up to a boundary below the consumer's position.
C28_Witness ==
    /\ KeepRun
    /\ err = ""
    /\ last.op = "get"
    /\ ~last.called
    /\ cod.hit
    /\ cod.pmoved > 0
    /\ last.wpos > buf.wpos
    /\ last.ret > 0
    /\ cod.mem[last.ret] = FrameByte(last.wpos, 0)

(***************************************************************************)
(* Compaction and the RSP high-priority queue.                             *)
(*                                                                         *)
(* q = [highpri, pending] is the queue as the CPU sees it: whether the     *)
(* caller is inside a high-priority block, and how many jobs submitted to  *)
(* the high-priority queue the RSP has not finished yet.  The RSP finishes *)
(* jobs on its own, in order, at any time.  Every samplebuffer_discard     *)
(* that moves bytes leaves a record in cod.moves: the caller's mode before *)
(* the call, the jobs still pending when the copy loop starts, and the     *)
(* mode after the call.  n counts the operations of the run.               *)
(***************************************************************************)
SyncBytes == 32
SyncSteps == 5
MaxJobs == 2

rspq_in_highpri(q) == q.highpri

rspq_highpri_begin(q) == [q EXCEPT !.highpri = TRUE]

rspq_highpri_end(q) == [q EXCEPT !.highpri = FALSE]

\* Blocks until the RSP has run every job of the high-priority queue.
rspq_highpri_sync(q) == [q EXCEPT !.pending = 0]

rspq_write(q) == [q EXCEPT !.pending = @ + 1]

\* A discard that copies without waiting for the RSP.
discard_sync_none(q) == q

\* samplebuffer.c:227-230, the queue when the copy loop starts.
discard_sync(q) ==
    LET highpri == rspq_in_highpri(q)
        q1 == IF highpri THEN rspq_highpri_end(q) ELSE q
        q2 == rspq_highpri_sync(q1)
    IN IF highpri THEN rspq_highpri_begin(q2) ELSE q2

\* samplebuffer_discard with the queue: [buf, q, moves].
sync_discard(b, q, moves, wpos) ==
    IF discard_moves(b, wpos)
    THEN LET q1 == discard_sync(q)
         IN [buf |-> samplebuffer_discard(b, wpos), q |-> q1,
             moves |-> Append(moves, [before |-> q.highpri,
                                      at_copy |-> q1.pending,
                                      after |-> q1.highpri])]
    ELSE [buf |-> samplebuffer_discard(b, wpos), q |-> q, moves |-> moves]

\* samplebuffer_append with the queue: [buf, q, moves, err].
sync_append(b, q, moves, wlen) ==
    LET a == samplebuffer_append(b, wlen)
    IN IF b.widx + wlen > b.size /\ b.widx >= b.ridx
       THEN LET d == sync_discard(b, q, moves, b.wpos + append_rollback(b))
            IN [buf |-> a.buf, q |-> d.q, moves |-> d.moves, err |-> a.err]
       ELSE [buf |-> a.buf, q |-> q, moves |-> moves, err |-> a.err]

\* A read callback shaped like waveform_vadpcm_read: the frames are
\* appended in two chunks, each followed by one decode job; the callback
\* enters a high-priority block before its first job and leaves it at the
\* end.  done is how many of the pending jobs the RSP finishes while the
\* callback prepares the second chunk.
sync_read(b, q, k, done) ==
    LET k1 == k \div 2
        a1 == sync_append(b, q, <<>>, k1)
        q1 == rspq_write(rspq_highpri_begin(a1.q))
        q2 == [q1 EXCEPT !.pending = IF done > @ THEN 0 ELSE @ - done]
        a2 == sync_append(a1.buf, q2, a1.moves, k - k1)
        q3 == rspq_highpri_end(rspq_write(a2.q))
    IN IF a1.err # "" THEN [buf |-> a1.buf, q |-> a1.q, moves |-> a1.moves,
                            err |-> a1.err]
       ELSE IF a2.err # "" THEN [buf |-> a2.buf, q |-> a2.q,
                                 moves |-> a2.moves, err |-> a2.err]
       ELSE [buf |-> a2.buf, q |-> q3, moves |-> a2.moves, err |-> ""]

InitSync ==
    /\ \E bits \in {8, 16, 32} :
          buf = samplebuffer_set_bps(samplebuffer_init(0, SyncBytes, 0),
                                     bits).buf
    /\ err = ""
    /\ last = NoObs
    /\ wav = NoWav
    /\ cod = [pc |-> "sync", n |-> 0,
              q |-> [highpri |-> FALSE, pending |-> 0],
              moves |-> <<>>, op |-> "init"]

\* samplebuffer_get from the mixer, outside any high-priority block.
SyncGet(wpos, wlen, done) ==
    /\ cod.pc = "sync"
    /\ err = ""
    /\ cod.n < SyncSteps
    /\ ~cod.q.highpri
    /\ cod.q.pending <= MaxJobs
    /\ UNCHANGED <<wav, last>>
    /\ \E p \in {get_plan(buf, wpos, wlen)} :
       \E c \in {IF p.call
                  THEN sync_read(p.buf, cod.q, p.rdlen, done)
                  ELSE [buf |-> p.buf, q |-> cod.q, moves |-> <<>>,
                        err |-> p.err]} :
       \E f \in {IF c.err = ""
                  THEN get_finish(c.buf, wpos, wlen, p.call)
                  ELSE [buf |-> c.buf, ret |-> -1, wlen |-> wlen,
                        err |-> c.err]} :
          /\ buf' = f.buf
          /\ err' = f.err
          /\ cod' = [cod EXCEPT !.n = @ + 1, !.q = c.q, !.moves = c.moves,
                                !.op = "get"]

\* samplebuffer_append called directly, in either mode.
SyncAppend(wlen) ==
    /\ cod.pc = "sync"
    /\ err = ""
    /\ cod.n < SyncSteps
    /\ UNCHANGED <<wav, last>>
    /\ \E a \in {sync_append(buf, cod.q, <<>>, wlen)} :
          /\ buf' = a.buf
          /\ err' = a.err
          /\ cod' = [cod EXCEPT !.n = @ + 1, !.q = a.q, !.moves = a.moves,
                                !.op = "append"]

\* samplebuffer_discard called directly, in either mode.
SyncDiscard(wpos) ==
    /\ cod.pc = "sync"
    /\ err = ""
    /\ cod.n < SyncSteps
    /\ UNCHANGED <<wav, last, err>>
    /\ \E d \in {sync_discard(buf, cod.q, <<>>, wpos)} :
          /\ buf' = d.buf
          /\ cod' = [cod EXCEPT !.n = @ + 1, !.q = d.q, !.moves = d.moves,
                                !.op = "discard"]

\* The caller opens a high-priority block and submits one job.
SyncSubmit ==
    /\ cod.pc = "sync"
    /\ err = ""
    /\ cod.n < SyncSteps
    /\ ~cod.q.highpri
    /\ cod.q.pending < MaxJobs
    /\ cod' = [cod EXCEPT !.n = @ + 1, !.moves = <<>>, !.op = "submit",
                          !.q = rspq_write(rspq_highpri_begin(@))]
    /\ UNCHANGED <<buf, err, last, wav>>

\* The caller closes its high-priority block.
SyncEnd ==
    /\ cod.pc = "sync"
    /\ err = ""
    /\ cod.n < SyncSteps
    /\ cod.q.highpri
    /\ cod' = [cod EXCEPT !.n = @ + 1, !.moves = <<>>, !.op = "end",
                          !.q = rspq_highpri_end(@)]
    /\ UNCHANGED <<buf, err, last, wav>>

\* The RSP finishes the oldest pending job.
SyncRsp ==
    /\ cod.pc = "sync"
    /\ err = ""
    /\ cod.q.pending > 0
    /\ cod' = [cod EXCEPT !.moves = <<>>, !.op = "rsp", !.q.pending = @ - 1]
    /\ UNCHANGED <<buf, err, last, wav>>

NextSync ==
    \/ \E wpos \in {0, 4, 6, 8, 12}, wlen \in {4, 8}, done \in 0..1 :
          SyncGet(wpos, wlen, done)
    \/ \E wlen \in {4, 8} : SyncAppend(wlen)
    \/ \E wpos \in {2, 4, 5} : SyncDiscard(wpos)
    \/ SyncSubmit
    \/ SyncEnd
    \/ SyncRsp

SpecSync == InitSync /\ [][NextSync]_vars

SyncRun == cod.pc = "sync"

\* C29: whenever a discard, direct or inside an append, moved frames in
\* the last operation, no job submitted to the high-priority queue was
\* still pending when its copy started, and the caller was left in the
\* high-priority mode it was in before the call.
C29_CompactionSyncsFirst ==
    SyncRun =>
        \A i \in 1..Len(cod.moves) :
            /\ cod.moves[i].at_copy = 0
            /\ cod.moves[i].after = cod.moves[i].before

\* An append inside a read callback compacted while the callback's own
\* first job was in the queue and the callback was in high-priority mode.
C29_Witness ==
    /\ SyncRun
    /\ cod.op = "get"
    /\ err = ""
    /\ Len(cod.moves) > 0
    /\ cod.moves[Len(cod.moves)].before
    /\ cod.q.pending = 1

\* A direct discard moved frames for a caller inside a high-priority
\* block.
SyncDirectWitness ==
    /\ SyncRun
    /\ cod.op = "discard"
    /\ Len(cod.moves) = 1
    /\ cod.moves[1].before

(***************************************************************************)
(* The seeking flag of the read callback (samplebuffer.c:96-116, 133-138), *)
(* over the runs of Spec.                                                  *)
(***************************************************************************)
\* One step that is a get whose callback ran: buf is the buffer the get
\* found, last' what the callback was called with.
SeekingStep ==
    (last'.op = "get" /\ last'.called /\ ~last'.seeking) =>
        last'.rdpos = buf.wnext

\* C30: the read callback is told seeking = FALSE only when the position
\* it is asked to read from is the one recorded in wnext, the position
\* after the last frame the previous read left in the buffer; a read from
\* any other position is flagged seeking = TRUE.
C30_SeekingIffDiscontinuous == [][SeekingStep]_vars

\* What the code keeps: a read that is not flagged comes from a get that
\* asked for wnext itself (restart path) or that continues the window at
\* wnext; the position read is wnext, or wnext - 1 when the get restarts
\* at an odd wnext of an 8-bit buffer.
SeekingAsCoded ==
    [][(last'.op = "get" /\ last'.called /\ ~last'.seeking) =>
          \/ last'.rdpos = buf.wnext
          \/ /\ last'.rdpos = buf.wnext - 1
             /\ last'.wpos = buf.wnext
             /\ SAMPLES_BPS_SHIFT(buf) = 0
             /\ buf.wnext % 2 = 1]_vars

(***************************************************************************)
(* The loop-end epilogue of waveform_vadpcm_read, over the runs of         *)
(* SpecCodec.                                                              *)
(***************************************************************************)
\* The last get of voice v called the VADPCM callback of a looping file
\* and the decoding loop ran past the waveform length.
DecodedPastLen(v) ==
    /\ VoiceRead(v)
    /\ cod.v[v].err = ""
    /\ cod.f.format = WAV64_FORMAT_VADPCM
    /\ cod.f.loop_len # 0
    /\ cod.v[v].x.endpos > cod.f.len

\* One step in which voice v's get ran the callback past the waveform
\* length: what the get returned with.
LoopEndStep(v) ==
    (cod.pc = "run" /\ cod'.v[v] # cod.v[v] /\ DecodedPastLen(v)') =>
        /\ cod'.v[v].x.undone = cod'.v[v].x.endpos - cod.f.len
        /\ cod'.v[v].buf.wpos + cod'.v[v].buf.widx = cod.f.len
        /\ cod'.v[v].buf.wnext = cod.f.len
        /\ cod'.v[v].x.mine = 0
        /\ cod'.rspq = 0

\* C31: a read on a looping VADPCM waveform that decoded past the waveform
\* length has retracted exactly the frames beyond the length, so the
\* buffer window ends at logical position len, and has waited for the RSP
\* queue to drain (its own jobs and those of other voices) before
\* returning.
C31_LoopEndRetractsAndSyncs == [][\A v \in Voices : LoopEndStep(v)]_vars

\* A read of a looping file decoded 16 samples past the length and
\* retracted them, after the other voice had been reading too; nothing is
\* pending.
C31_Witness ==
    /\ cod.pc = "run"
    /\ \E v \in Voices :
         /\ DecodedPastLen(v)
         /\ cod.v[v].x.undone = 16
         /\ cod.v[v].x.endpos = cod.f.len + 16
         /\ \E u \in Voices \ {v} : VoiceRead(u)
         /\ cod.rspq = 0

(***************************************************************************)
(* The round trip audioconv64 makes on every Huffman-compressed stream     *)
(* (conv_wav64.cpp:319-333): huffv_compress on the encoded frames, then    *)
(* huffv_decompress_init and huffv_decompress on what it wrote, and two    *)
(* assertions on the result.  The data are the bytes of the frames; the    *)
(* 32-bit bit buffers of the two loops are kept as the value of their low  *)
(* bit_pos (bit_count) bits, the only ones either loop reads.              *)
(***************************************************************************)
MaxTripFrames == 2      \* 9-byte frames of a round-trip input

\* A frame with control nibbles n0 and n1 and residual nibbles a, a, a, b
\* repeated.
TripFrame(n0, n1, a, b) ==
    [i \in 1..9 |->
        IF i = 1 THEN n0 * 16 + n1
        ELSE a * 16 + (IF i % 2 = 1 THEN b ELSE a)]

TripFrames ==
    {TripFrame(n0, n1, a, b) : n0 \in 0..MaxSym, n1 \in 0..MaxSym,
                               a \in 0..MaxSym, b \in 0..MaxSym}

\* The inputs of n frames: any first frame, followed by frames of one
\* nibble value with residual b = 0.
TripInputs(n) ==
    {[k \in 1..n |-> IF k = 1 THEN f ELSE TripFrame(m[k], m[k], m[k], 0)] :
       f \in TripFrames, m \in [1..n -> 0..MaxSym]}

\* Nibble n (from 0) of the data and the context it is coded in
\* (huff_vadpcm.c:87-91, 190-194).
huff_nibble(data, n) ==
    IF n % 2 = 0 THEN data[(n \div 2) + 1] \div 16 ELSE data[(n \div 2) + 1] % 16

huff_context(n) == IF n % 18 < 2 THEN n % 18 ELSE 2

\* The counting loop of calculate_frequencies (huff_vadpcm.c:85-97).
huff_count(data) ==
    [i \in HuffCtxs |->
        [j \in HuffSyms |->
            Cardinality({n \in 0..(2 * Len(data) - 1) :
                            huff_context(n) = i /\ huff_nibble(data, n) = j})]]

\* ctx[c].codes[sym] as huffv_compress serialized it: length -1 (written
\* as 0xF) for a symbol that does not occur.
huff_code(ctx, c, sym) ==
    [length |-> IF huff_len(ctx[c], sym) = 15 THEN -1
                ELSE huff_len(ctx[c], sym),
     value |-> ctx[c].values[sym]]

\* buffer = (buffer << length) | value; bit_pos += length.
huff_put(st, code) ==
    IF st.err # "" THEN st
    ELSE IF code.length < 0 THEN [st EXCEPT !.err = "huff_unused_symbol"]
    ELSE [st EXCEPT !.buffer = @ * (2 ^ code.length) + code.value,
                    !.bit_pos = @ + code.length]

\* while (bit_pos >= 8) output[written++] = buffer >> (bit_pos - 8).
RECURSIVE huff_flush(_, _)
huff_flush(st, output_len) ==
    IF st.err # "" \/ st.bit_pos < 8 THEN st
    ELSE IF ~(Len(st.out) < output_len)
    THEN [st EXCEPT !.err = "huff_output_full"]
    ELSE CHOOSE r \in
      {huff_flush(s1, output_len) :
       s1 \in {[st EXCEPT !.out = Append(@, (st.buffer
                                             \div (2 ^ (st.bit_pos - 8)))
                                            % 256),
                          !.buffer = @ % (2 ^ (st.bit_pos - 8)),
                          !.bit_pos = @ - 8]}} : TRUE

\* The symbol loop of one frame from byte b of the frame on: two symbols
\* and the flush (huff_vadpcm.c:189-210); base is the index of the byte
\* before the frame.
RECURSIVE huffv_emit_frame(_, _, _, _, _, _)
huffv_emit_frame(ctx, data, base, b, st, output_len) ==
    IF st.err # "" \/ b > 9 THEN st
    ELSE CHOOSE r \in
      {huffv_emit_frame(ctx, data, base, b + 1, s2, output_len) :
       s2 \in {huff_flush(s1, output_len) :
               s1 \in {huff_put(s0, huff_code(ctx, huff_context(2 * b - 1),
                                   huff_nibble(data, 2 * (base + b) - 1))) :
                       s0 \in {huff_put(st,
                                  huff_code(ctx, huff_context(2 * b - 2),
                                     huff_nibble(data, 2 * (base + b) - 2)))}}}}
      : TRUE

\* Up to n frames of the encoding loop of huffv_compress from the frame
\* after byte base on (huff_vadpcm.c:184-212): [st, base].
RECURSIVE huffv_emit_frames(_, _, _, _, _, _)
huffv_emit_frames(ctx, data, base, n, st, output_len) ==
    IF st.err # "" \/ n = 0 \/ base >= Len(data)
    THEN [st |-> st, base |-> base]
    ELSE CHOOSE r \in
      {huffv_emit_frames(ctx, data, base + 9, n - 1, s1, output_len) :
       s1 \in {huffv_emit_frame(ctx, data, base, 1, st, output_len)}} : TRUE

\* The encoding loop of huffv_compress from the frame after byte base on,
\* sixteen frames at a time, and its last partial byte
\* (huff_vadpcm.c:184-219).
RECURSIVE huffv_emit(_, _, _, _, _)
huffv_emit(ctx, data, base, st, output_len) ==
    IF st.err # "" THEN st
    ELSE IF base >= Len(data)
    THEN IF st.bit_pos > 0
         THEN IF ~(Len(st.out) < output_len)
              THEN [st EXCEPT !.err = "huff_output_full"]
              ELSE [st EXCEPT !.out = Append(@, (st.buffer
                                              * (2 ^ (8 - st.bit_pos))) % 256),
                              !.buffer = 0, !.bit_pos = 0]
         ELSE st
    ELSE CHOOSE r \in
      {huffv_emit(ctx, data, g.base, g.st, output_len) :
       g \in {huffv_emit_frames(ctx, data, base, 16, st, output_len)}} : TRUE

\* The bytes huffv_compress writes for the data with the contexts ctx.
huffv_output(ctx, data, output_len) ==
    huffv_emit(ctx, data, 0,
               [buffer |-> 0, bit_pos |-> 0, out |-> <<>>, err |-> ""],
               output_len)

\* The refill loop of the decoder (huff_vadpcm.c:355-362): a byte past the
\* compressed length reads as zero bits and is still counted.
RECURSIVE huff_refill(_, _, _)
huff_refill(compressed, compressed_len, st) ==
    IF st.bit_count >= 8 THEN st
    ELSE CHOOSE r \in
      {huff_refill(compressed, compressed_len, s1) :
       s1 \in {[st EXCEPT !.bit_buffer =
                             @ * 256 + (IF st.comp_index < compressed_len
                                        THEN compressed[st.comp_index + 1]
                                        ELSE 0),
                          !.comp_index = @ + 1,
                          !.bit_count = @ + 8]}} : TRUE

\* One symbol of the decoder: the table entry of the top 8 bits.
huff_symbol(tbl, context, st) ==
    CHOOSE r \in
      {[st EXCEPT !.nibbles = Append(@, code_val \div 16),
                  !.bit_buffer = @ % (2 ^ (st.bit_count - (code_val % 16))),
                  !.bit_count = @ - (code_val % 16)] :
       code_val \in {tbl[context].codes[
                        (st.bit_buffer \div (2 ^ (st.bit_count - 8))) % 256]}}
      : TRUE

RECURSIVE huffv_blocks(_, _, _, _, _, _)
huffv_blocks(compressed, compressed_len, tbl, n, count, st) ==
    IF n = count THEN st
    ELSE CHOOSE r \in
      {huffv_blocks(compressed, compressed_len, tbl, n + 1, count, s2) :
       s2 \in {huff_symbol(tbl, huff_context(n), s1) :
               s1 \in {huff_refill(compressed, compressed_len, st)}}} : TRUE

\* huffv_decompress of audioconv64 (huff_vadpcm.c:329-386): the output
\* bytes and the number of bits consumed.
huffv_decompress_tool(compressed, compressed_len, tbl, output_len) ==
    CHOOSE r \in
      {[output |-> [i \in 1..output_len |->
                       st.nibbles[2 * i - 1] * 16 + (st.nibbles[2 * i] % 16)],
        bits_consumed |-> st.comp_index * 8 - st.bit_count] :
       st \in {huffv_blocks(compressed, compressed_len, tbl, 0,
                            18 * (output_len \div 9),
                            [bit_buffer |-> 0, bit_count |-> 0,
                             comp_index |-> 0, nibbles |-> <<>>])}} : TRUE

InitTrip ==
    /\ buf = samplebuffer_init(0, 8, 0)
    /\ err = ""
    /\ last = NoObs
    /\ wav = NoWav
    /\ \E n \in 1..MaxTripFrames :
       \E fr \in TripInputs(n) :
          cod = [pc |-> "trip_input",
                 dest |-> [i \in 1..(9 * n) |->
                             fr[((i - 1) \div 9) + 1][((i - 1) % 9) + 1]],
                 ctx |-> <<>>, compbuf |-> <<>>, scratch |-> <<>>,
                 bitpos |-> 0]

\* huffv_compress(dest, dest_size, compbuf, maxcompbuflen, ctxbuf, ...).
TripCompress ==
    /\ err = ""
    /\ cod.pc = "trip_input"
    /\ \E cnt \in {huff_count(cod.dest)} :
       \E ctx \in huffv_compress(cnt) :
       \E st \in {huffv_output(ctx, cod.dest, Len(cod.dest))} :
          /\ cod' = [cod EXCEPT !.pc = "trip_compressed", !.ctx = ctx,
                                !.compbuf = st.out]
          /\ err' = st.err
    /\ UNCHANGED <<buf, last, wav>>

\* The double check of the converter: tables, decompression and the two
\* assertions (conv_wav64.cpp:327-333).
TripCheck ==
    /\ err = ""
    /\ cod.pc = "trip_compressed"
    /\ \E tbl \in {huffv_decompress_init(cod.ctx)} :
          IF huff_tables_err(tbl) # ""
          THEN /\ cod' = [cod EXCEPT !.pc = "trip_checked"]
               /\ err' = huff_tables_err(tbl)
          ELSE \E r \in {huffv_decompress_tool(cod.compbuf, Len(cod.compbuf),
                                               tbl, Len(cod.dest))} :
                  /\ cod' = [cod EXCEPT !.pc = "trip_checked",
                                        !.scratch = r.output,
                                        !.bitpos = r.bits_consumed]
                  /\ err' = IF (r.bits_consumed + 7) \div 8 # Len(cod.compbuf)
                            THEN "trip_length"
                            ELSE IF r.output # cod.dest THEN "trip_data"
                            ELSE ""
    /\ UNCHANGED <<buf, last, wav>>

NextTrip == TripCompress \/ TripCheck

SpecTrip == InitTrip /\ [][NextTrip]_vars

TripChecked == cod.pc = "trip_checked"

\* C32: for every input of whole 9-byte frames, decompressing the output
\* of huffv_compress with the tables built from the contexts it emitted
\* gives back the input bytes, and the bits reported as consumed, rounded
\* up to bytes, are the compressed length.
C32_RoundTrip ==
    TripChecked =>
        /\ err = ""
        /\ cod.scratch = cod.dest
        /\ (cod.bitpos + 7) \div 8 = Len(cod.compbuf)

\* Whenever the tables of the emitted contexts can be built, the round
\* trip is exact.
RoundTripWhenBuilt ==
    (TripChecked /\ err # "huff_entry_empty") =>
        /\ err = ""
        /\ cod.scratch = cod.dest
        /\ (cod.bitpos + 7) \div 8 = Len(cod.compbuf)

\* The table build fails exactly when some context holds only nibble 0.
TripFailsOnZeroOnly ==
    TripChecked =>
        (err = "huff_entry_empty"
            <=> \E i \in HuffCtxs : \A j \in HuffSyms \ {0} :
                   huff_count(cod.dest)[i][j] = 0)

(***************************************************************************)
(* The runtime Huffman decoder on the streams audioconv64 writes           *)
(* (wav64_vadpcm.c:142-201, 269-281).  A stream is the frames of a mono or *)
(* stereo waveform; the converter compresses them, wav64_vadpcm_init       *)
(* builds the tables, and sequential reads of 32 or 64 samples decode the  *)
(* stream batch by batch into the end of the destination region, loading   *)
(* slen bytes of the file into the scratch area at its start.  The batch   *)
(* record keeps how far the decoder's source pointer went (src, in bytes   *)
(* from the start of the scratch area), how many bytes the read loaded     *)
(* and how many bits the decoded symbols took.                             *)
(***************************************************************************)
\* A frame with control nibbles 1 and 2 and sixteen residual nibbles s.
RunFrame(s) == TripFrame(1, 2, s, s)

\* The bytes of a stream of runs: runs[k] frames of residual nibble k, the
\* rarest first or last.
RECURSIVE RunBytes(_, _)
RunBytes(runs, k) ==
    IF k > Len(runs) THEN <<>>
    ELSE [i \in 1..(9 * runs[k]) |-> RunFrame(k)[((i - 1) % 9) + 1]]
            \o RunBytes(runs, k + 1)

RECURSIVE RunBytesDown(_, _)
RunBytesDown(runs, k) ==
    IF k < 1 THEN <<>>
    ELSE [i \in 1..(9 * runs[k]) |-> RunFrame(k)[((i - 1) % 9) + 1]]
            \o RunBytesDown(runs, k - 1)

\* Frame counts per residual value: an even spread, and skewed ones in
\* which the rare values get the long codes.
BatchRuns ==
    {<<4, 4>>, <<2, 2, 4, 8>>, <<1, 2, 3, 6, 12>>,
     <<1, 2, 3, 6, 12, 24, 48>>}

\* The size of the scratch area of a batch of nframes frames
\* (wav64_vadpcm.c:269-277); the destination is 16-bit, so a sample takes
\* 2 bytes per channel, and it is 16-byte aligned.
batch_src_bytes(nframes, channels) == VADPCM_FRAME_BYTES * nframes * channels

batch_scratch_size(nframes, channels) ==
    ROUND_UP((nframes * 16 * 2 * channels
                - batch_src_bytes(nframes, channels)) \div 2, 16)

\* The scratch area after read(fd, scratch, slen) at file offset off: the
\* bytes the read did not load hold fill.
batch_scratch(compbuf, off, slen, len, fill) ==
    [i \in 0..(2 * len + 8) |->
        IF i < slen /\ off + i < Len(compbuf) THEN compbuf[off + i + 1]
        ELSE fill]

\* The top 8 bits of the decoder's buffer: the low buffer_bits bits of the
\* 64-bit buffer are the bits of the scratch area that end at byte src
\* (the words are read big-endian).
batch_index(scratch, st) ==
    CHOOSE r \in
      {((scratch[p \div 8] * 256 + scratch[(p \div 8) + 1])
            \div (2 ^ (8 - (p % 8)))) % 256 :
       p \in {8 * st.src - st.buffer_bits}} : TRUE

\* while (buffer_bits < 32): read one word.  The assertion in the loop
\* compares the cached alias of the pointer with the uncached address of
\* the scratch area and always holds.
RECURSIVE batch_refill(_)
batch_refill(st) ==
    IF st.buffer_bits >= 32 THEN st
    ELSE batch_refill([st EXCEPT !.src = @ + 4, !.buffer_bits = @ + 32])

\* One symbol: code = tbl->codes[top 8 bits]; the symbol and its length.
batch_symbol(tbl, context, scratch, st) ==
    CHOOSE r \in
      {[st EXCEPT !.buffer_bits = @ - (code % 16),
                  !.bitpos = @ + (code % 16),
                  !.val = code \div 16] :
       code \in {tbl[context].codes[batch_index(scratch, st)]}} : TRUE

\* The loop over the len output bytes from byte i on.
RECURSIVE batch_bytes(_, _, _, _, _)
batch_bytes(tbl, scratch, i, len, st) ==
    IF i = len THEN st
    ELSE CHOOSE r \in
      {batch_bytes(tbl, scratch, i + 1, len,
                   [s2 EXCEPT !.dst = Append(@, s1.val * 16 + s2.val)]) :
       <<s1, s2>> \in
         {<<a, batch_symbol(tbl, IF i % 9 = 0 THEN 1 ELSE 2, scratch, a)>> :
            a \in {batch_symbol(tbl, IF i % 9 = 0 THEN 0 ELSE 2, scratch,
                                batch_refill(st))}}} : TRUE

\* The runtime huffv_decompress for the bit position bitpos: [src, bitpos,
\* dst, loaded, err].
huffv_batch(tbl, compbuf, bitpos, len, slen, fill) ==
    CHOOSE r \in
      {[src |-> st.src, bitpos |-> st.bitpos, dst |-> st.dst,
        loaded |-> Min(slen, Len(compbuf) - (bitpos \div 8)),
        err |-> IF st.src <= slen THEN "" ELSE "huff_read_past_end"] :
       st \in {batch_bytes(tbl,
                  batch_scratch(compbuf, bitpos \div 8, slen, len, fill),
                  0, len,
                  IF bitpos % 8 # 0
                  THEN [src |-> 1, buffer_bits |-> 8 - (bitpos % 8),
                        bitpos |-> bitpos, val |-> 0, dst |-> <<>>]
                  ELSE [src |-> 0, buffer_bits |-> 0,
                        bitpos |-> bitpos, val |-> 0, dst |-> <<>>])}} : TRUE

NoBatch == [nframes |-> 0, from |-> 0, start |-> 0, src |-> 0, slen |-> 0,
            loaded |-> 0, dst |-> <<>>]

InitBatch ==
    /\ buf = samplebuffer_init(0, 8, 0)
    /\ err = ""
    /\ last = NoObs
    /\ wav = NoWav
    /\ \E runs \in BatchRuns, channels \in 1..2, down \in BOOLEAN :
          cod = [pc |-> "batch_input", channels |-> channels,
                 dest |-> IF down THEN RunBytesDown(runs, Len(runs))
                          ELSE RunBytes(runs, 1),
                 ctx |-> <<>>, compbuf |-> <<>>, tbl |-> <<>>,
                 bitpos |-> 0, nframe |-> 0, batch |-> NoBatch]

\* audioconv64 writes the compressed stream and its contexts
\* (conv_wav64.cpp:314-320, 353, 368-369).
BatchConvert ==
    /\ err = ""
    /\ cod.pc = "batch_input"
    /\ \E cnt \in {huff_count(cod.dest)} :
       \E ctx \in huffv_compress(cnt) :
       \E st \in {huffv_output(ctx, cod.dest, Len(cod.dest))} :
          /\ cod' = [cod EXCEPT !.pc = "batch_file", !.ctx = ctx,
                                !.compbuf = st.out]
          /\ err' = st.err
    /\ UNCHANGED <<buf, last, wav>>

\* wav64_vadpcm_init builds the tables of the file's contexts.
BatchOpen ==
    /\ err = ""
    /\ cod.pc = "batch_file"
    /\ \E tbl \in {wav64_vadpcm_init_huffman(cod.ctx)} :
          /\ cod' = [cod EXCEPT !.pc = "batch_open", !.tbl = tbl]
          /\ err' = huff_tables_err(tbl)
    /\ UNCHANGED <<buf, last, wav>>

\* One iteration of the decoding loop of waveform_vadpcm_read on a
\* Huffman-compressed stream: the next nframes frames of every channel.
BatchRead(nframes, fill) ==
    /\ err = ""
    /\ cod.pc = "batch_open"
    /\ VADPCM_FRAME_BYTES * (cod.nframe + nframes) * cod.channels
          <= Len(cod.dest)
    /\ \E len \in {batch_src_bytes(nframes, cod.channels)},
          slen \in {batch_scratch_size(nframes, cod.channels)} :
       \E r \in {huffv_batch(cod.tbl, cod.compbuf, cod.bitpos, len, slen,
                             fill)} :
          /\ cod' = [cod EXCEPT
                       !.bitpos = r.bitpos,
                       !.nframe = @ + nframes,
                       !.batch = [nframes |-> nframes, from |-> cod.nframe,
                                  start |-> cod.bitpos, src |-> r.src,
                                  slen |-> slen, loaded |-> r.loaded,
                                  dst |-> r.dst]]
          /\ err' = r.err
    /\ UNCHANGED <<buf, last, wav>>

NextBatch ==
    \/ BatchConvert
    \/ BatchOpen
    \/ \E nframes \in {2, 4}, fill \in {0, 255} : BatchRead(nframes, fill)

SpecBatch == InitBatch /\ [][NextBatch]_vars

\* A batch has been decoded.
BatchDone == cod.pc = "batch_open" /\ cod.batch.nframes > 0

\* The bytes of the stream the last batch covers.
BatchFrames ==
    SubSeq(cod.dest,
           VADPCM_FRAME_BYTES * cod.batch.from * cod.channels + 1,
           VADPCM_FRAME_BYTES * (cod.batch.from + cod.batch.nframes)
              * cod.channels)

\* The bytes of the scratch area that hold bits of the decoded symbols.
BatchBytesUsed ==
    ((cod.batch.start % 8) + (cod.bitpos - cod.batch.start) + 7) \div 8

\* C33: for every batch of every Huffman-compressed stream the converter
\* can produce, the runtime decoder's source pointer stays within the slen
\* bytes of the scratch area, so the end-of-batch assertion holds, and
\* every decoded bit comes from a byte the read loaded.
C33_DecoderStaysInScratch ==
    BatchDone =>
        /\ err = ""
        /\ cod.batch.src <= cod.batch.slen
        /\ BatchBytesUsed <= cod.batch.loaded

\* When the end-of-batch assertion holds, the decoded bytes are the frames
\* of the stream and come from loaded bytes only.
BatchExactWhenInBounds ==
    (BatchDone /\ err = "") =>
        /\ cod.batch.dst = BatchFrames
        /\ BatchBytesUsed <= cod.batch.loaded

(***************************************************************************)
(* Loop point and skip points of a VADPCM WAV64: what wav64_write stores   *)
(* (conv_wav64.cpp:152-192, 208-209, 243-281, 350-365) and what the        *)
(* runtime finds when it seeks to the loop start (wav64_vadpcm.c:218-235,  *)
(* wav64_vadpcm_internal.h:47-57).  The input is a looping or one-shot     *)
(* waveform of cnt samples with the skip points the XM conversion          *)
(* collected for it (none for a WAV input), in ascending order.            *)
(***************************************************************************)
VADCPM_ALIGN == 32
SkipStride == 256       \* distance of the collected skip points
SkipCounts == {0, 1, 2, 126, 127, 128, 255}   \* how many are collected

\* n skip points, SkipStride apart, each back samples before a multiple
\* of it.
SkipPoints(n, back) == [k \in 1..n |-> k * SkipStride - back]

\* An 8-bit field read as int8_t.
AsInt8(b) == IF b >= 128 THEN b - 256 ELSE b

\* The loop adjustment of wav64_write for VADPCM: [cnt, loopOffset,
\* loop_len] (conv_wav64.cpp:152-192).
vadpcm_align_loop(w) ==
    CHOOSE r \in
      {IF w.looping /\ (w.loopOffset % VADCPM_ALIGN) # 0
       THEN [cnt |-> w.cnt + ncopy, loopOffset |-> w.loopOffset + ncopy,
             loop_len |-> (w.cnt + ncopy) - (w.loopOffset + ncopy)]
       ELSE [cnt |-> w.cnt, loopOffset |-> w.loopOffset,
             loop_len |-> IF w.looping /\ w.cnt - w.loopOffset >= 0
                          THEN w.cnt - w.loopOffset ELSE 0] :
       ncopy \in {VADCPM_ALIGN - (w.loopOffset % VADCPM_ALIGN)}} : TRUE

\* The skip points written: the collected ones and the loop point, sorted,
\* each moved to the next frame boundary (conv_wav64.cpp:267-274).
vadpcm_skip_points(w, a) ==
    CHOOSE r \in
      {[i \in 1..Len(sorted) |->
          ((sorted[i] + VADPCM_FRAME_SAMPLES - 1) \div VADPCM_FRAME_SAMPLES)
              * VADPCM_FRAME_SAMPLES] :
       sorted \in
         {IF w.looping
          THEN SelectSeq(w.skipPoints, LAMBDA x : x <= a.loopOffset)
                  \o <<a.loopOffset>>
                  \o SelectSeq(w.skipPoints, LAMBDA x : x > a.loopOffset)
          ELSE w.skipPoints}} : TRUE

\* The file wav64_write produces: header len and loop_len (written before
\* the padding to 32 samples), the count byte and the skip point table.
\* No file is left (failed) when a skip point lies outside the padded
\* waveform, or when the count does not fit the byte: w8 asserts that
\* its value is not truncated (binout.h:17-27).
vadpcm_file(w) ==
    CHOOSE r \in
      {[len |-> a.cnt, loop_len |-> a.loop_len,
        num_skippoints |-> Len(sp) % 256,
        skip_points |-> sp,
        failed |-> \/ \E i \in 1..Len(sp) :
                         \/ sp[i] < 0
                         \/ sp[i] >= ROUND_UP(a.cnt, VADCPM_ALIGN)
                   \/ Len(sp) >= 256] :
       <<a, sp>> \in {<<b, vadpcm_skip_points(w, b)>> :
                        b \in {vadpcm_align_loop(w)}}} : TRUE

\* The seeking prologue of waveform_vadpcm_read at wpos on the header h:
\* "" or the assertion that fails (wav64_vadpcm.c:212-235).
vadpcm_seek(h, wpos) ==
    IF wpos = 0 THEN ""
    ELSE IF \E i \in 0..(AsInt8(h.num_skippoints) - 1) :
               h.skip_points[i + 1] = wpos
    THEN ""
    ELSE "vadpcm_seek_point"

InitSkip ==
    /\ buf = samplebuffer_init(0, 8, 0)
    /\ err = ""
    /\ last = NoObs
    /\ wav = NoWav
    /\ \E n \in SkipCounts, back \in {0, 3}, looping \in BOOLEAN,
          pad \in {0, 1, 40} :
       \E loopOffset \in {0, 5, 32, SkipStride, SkipStride + 44,
                          256 * SkipStride + pad - 1,
                          256 * SkipStride + pad} :
          cod = [pc |-> "skip_input",
                 w |-> [cnt |-> 256 * SkipStride + pad, looping |-> looping,
                        loopOffset |-> IF looping THEN loopOffset ELSE 0,
                        skipPoints |-> SkipPoints(n, back)],
                 h |-> <<>>, sought |-> -1]

\* wav64_write; a failed conversion leaves no file.
SkipWrite ==
    /\ cod.pc = "skip_input"
    /\ \E h \in {vadpcm_file(cod.w)} :
          cod' = [cod EXCEPT !.pc = IF h.failed THEN "skip_failed"
                                    ELSE "skip_file",
                             !.h = h]
    /\ UNCHANGED <<buf, err, last, wav>>

\* The mixer wraps a looping waveform around: the read callback is called
\* with seeking set at the loop start len - loop_len.
SkipSeek ==
    /\ cod.pc = "skip_file"
    /\ cod.h.loop_len > 0
    /\ cod' = [cod EXCEPT !.pc = "skip_sought",
                          !.sought = cod.h.len - cod.h.loop_len]
    /\ err' = vadpcm_seek(cod.h, cod.h.len - cod.h.loop_len)
    /\ UNCHANGED <<buf, last, wav>>

\* A seek to a collected skip point (the XM player's sample offset effect).
SkipSeekTo(i) ==
    /\ cod.pc = "skip_file"
    /\ i \in 1..Len(cod.h.skip_points)
    /\ cod' = [cod EXCEPT !.pc = "skip_sought",
                          !.sought = cod.h.skip_points[i]]
    /\ err' = vadpcm_seek(cod.h, cod.h.skip_points[i])
    /\ UNCHANGED <<buf, last, wav>>

NextSkip ==
    \/ SkipWrite
    \/ SkipSeek
    \/ \E i \in {1, 2, 127, 128} : SkipSeekTo(i)

SpecSkip == InitSkip /\ [][NextSkip]_vars

\* A looping file has been written.
SkipLooping == cod.pc \in {"skip_file", "skip_sought"} /\ cod.h.loop_len > 0

\* C34: for every looping VADPCM WAV64 the converter writes, the loop
\* start len - loop_len of the header is a multiple of 32 and is the
\* offset of one of the skip points the runtime sees, so the seeking read
\* at the loop start finds its match, however many skip points there are.
C34_LoopStartIsSkipPoint ==
    SkipLooping =>
        /\ (cod.h.len - cod.h.loop_len) % VADCPM_ALIGN = 0
        /\ \E i \in 0..(AsInt8(cod.h.num_skippoints) - 1) :
              cod.h.skip_points[i + 1] = cod.h.len - cod.h.loop_len
        /\ (cod.pc = "skip_sought"
               /\ cod.sought = cod.h.len - cod.h.loop_len) => err = ""

\* The loop start is always a multiple of 32 and in the written table;
\* the runtime finds it in files of at most 127 skip points, the loop
\* point included.
LoopStartFoundUpTo127 ==
    SkipLooping =>
        /\ (cod.h.len - cod.h.loop_len) % VADCPM_ALIGN = 0
        /\ \E i \in 1..Len(cod.h.skip_points) :
              cod.h.skip_points[i] = cod.h.len - cod.h.loop_len
        /\ Len(cod.h.skip_points) <= 127 =>
              /\ \E i \in 0..(AsInt8(cod.h.num_skippoints) - 1) :
                    cod.h.skip_points[i + 1] = cod.h.len - cod.h.loop_len
              /\ cod.pc = "skip_sought" => err = ""

(***************************************************************************)
(* Stop requests and later playbacks (xm64.c:25-30, 43-47, 196-222), over  *)
(* the runs of SpecTick.                                                   *)
(***************************************************************************)
\* A tick follows a call of xm64player_play directly, and the song does
\* not end in it.
TickAfterPlay ==
    /\ cod.pc = "tick"
    /\ cod.op = "play"
    /\ cod'.op = "tick"
    /\ cod.looping \/ cod'.ctx.loop_count = 0

\* C35: a stop request affects only the playback that was running when it
\* was issued: the playback xm64player_play starts after xm64player_stop,
\* with or without a tick in between and also when the stop was called on
\* a player that was not playing, goes on playing.
C35_StopOnlyCurrentPlayback ==
    [][TickAfterPlay => (cod'.playing /\ cod'.scheduled)]_vars

\* xm64player_play leaves the player playing when it returns, and the
\* playback it starts goes on when no stop request was pending at the call.
PlayStartsUnlessStopPending ==
    [][/\ (cod.pc = "tick" /\ cod'.op = "play") => cod'.playing
       /\ (TickAfterPlay /\ ~cod.stop_requested)
             => (cod'.playing /\ cod'.scheduled)]_vars

(***************************************************************************)
(* The tick event of a player (xm64.c:32-108, 196-222, 259-263).  The      *)
(* mixer's event list is not part of these sources: events counts the      *)
(* registrations of the player's tick in it, mixer_add_event adds one,     *)
(* mixer_remove_event and a callback that returns 0 take one away.  The    *)
(* player is that of the tick runs with the count added; after             *)
(* xm64player_close no call is made on it, but the mixer still fires       *)
(* whatever is registered.                                                 *)
(***************************************************************************)
EvSteps == 5            \* calls in one run

mixer_add_event(x) == [x EXCEPT !.events = @ + 1]

mixer_remove_event(x) ==
    [x EXCEPT !.events = IF @ > 0 THEN @ - 1 ELSE 0, !.removed = @ + 1,
              !.scheduled = FALSE]

\* xm64player_play with its registration (xm64.c:199-216).
xm64player_play_event(x, first_ch) ==
    IF ~x.playing THEN mixer_add_event(xm64player_play(x, first_ch)) ELSE x

\* The mixer runs the callback and drops the event when it returns 0.
mixer_fire(x, e) ==
    CHOOSE r \in
      {IF y.ret = 0 THEN [y EXCEPT !.events = @ - 1] ELSE y :
       y \in {tick(x, e)}} : TRUE

\* The start of xm64player_close (xm64.c:259-263).
xm64player_close_event(x) ==
    IF x.playing THEN [mixer_remove_event(x) EXCEPT !.playing = FALSE]
    ELSE x

InitEvent ==
    /\ buf = samplebuffer_init(0, 8, 0)
    /\ err = ""
    /\ last = NoObs
    /\ wav = NoWav
    /\ cod = [pc |-> "tick", n |-> 0, playing |-> FALSE,
              stop_requested |-> FALSE,
              looping |-> TRUE, first_ch |-> 0, seek |-> NoSeek,
              scheduled |-> FALSE,
              ctx |-> [idx |-> 0, row |-> 0, tick |-> 0, loop_count |-> 0,
                       ch |-> [i \in XmChans |-> [sample |-> 0, pos |-> 0]]],
              mix |-> [c \in TickMixChans |-> [wave |-> 0, pos |-> 0]],
              log |-> <<>>, ret |-> -1, nreq |-> 0, nseek |-> 0,
              op |-> "open", was |-> [stop |-> FALSE, seek |-> NoSeek,
                                      told |-> <<0, 0>>, sounding |-> {}],
              events |-> 0, removed |-> 0]

EvPlay(first_ch) ==
    /\ cod.pc = "tick"
    /\ cod.n < EvSteps
    /\ cod' = Called(xm64player_play_event(cod, first_ch), "play")
    /\ UNCHANGED <<buf, err, last, wav>>

EvSetLoop(loop) ==
    /\ cod.pc = "tick"
    /\ cod.n < EvSteps
    /\ cod.looping # loop
    /\ cod' = Called([cod EXCEPT !.looping = loop], "set_loop")
    /\ UNCHANGED <<buf, err, last, wav>>

EvStop ==
    /\ cod.pc = "tick"
    /\ cod.n < EvSteps
    /\ cod' = Called(xm64player_stop(cod), "stop")
    /\ UNCHANGED <<buf, err, last, wav>>

\* The mixer fires a registered event, also after the player was closed.
EvTick(e) ==
    /\ cod.n < EvSteps
    /\ cod.events > 0
    /\ cod' = Called(mixer_fire(cod, e), "tick")
    /\ UNCHANGED <<buf, err, last, wav>>

EvClose ==
    /\ cod.pc = "tick"
    /\ cod.n < EvSteps
    /\ cod' = [Called(xm64player_close_event(cod), "close")
                 EXCEPT !.pc = "closed"]
    /\ UNCHANGED <<buf, err, last, wav>>

NextEvent ==
    \/ \E first_ch \in 0..MaxFirstCh : EvPlay(first_ch)
    \/ \E loop \in BOOLEAN : EvSetLoop(loop)
    \/ EvStop
    \/ \E e \in EngineSteps : EvTick(e)
    \/ EvClose

SpecEvent == InitEvent /\ [][NextEvent]_vars

\* C36: playing is true exactly when one tick event of the player is
\* registered with the mixer; the event is never registered twice, and
\* none is left registered after close.
C36_PlayingIffEventRegistered ==
    /\ cod.playing <=> cod.events = 1
    /\ cod.events <= 1
    /\ cod.pc = "closed" => cod.events = 0

\* A playing player that had been stopped by a tick and started again was
\* closed: close removed the event.
C36_Witness ==
    /\ cod.pc = "closed"
    /\ cod.removed = 1
    /\ cod.events = 0
    /\ cod.n = EvSteps
    /\ cod.was.stop

(***************************************************************************)
(* audioconv64 converting several XM files in one run (audioconv64.cpp     *)
(* convert, conv_xm64.cpp xm_context_save).  placeholder_hash is a global  *)
(* of binout.c and placeholder_clear is called nowhere in the converter,   *)
(* so the table lives from the first file to the last.  A module here has  *)
(* one instrument with one sample and one pattern; xm64 and meta are the   *)
(* bytes of the output file and of the temporary metadata file, of which   *)
(* only the fields written through placeholders are kept (the fields with  *)
(* plain values in between are left out).  set holds the values given to   *)
(* the names while the file was written.  The metadata are appended        *)
(* as written: the compressor is not part of these sources.                *)
(***************************************************************************)
MaxXmFiles == 2         \* XM files converted in one run

XmNames == {"metadata_offset", "metadata_size", "ctx_size_stream_pattern_buf",
            "pattern_0", "pattern_size_0", "sample_0_0"}

\* Size in bytes of the sample's wav64, of the compressed pattern, and the
\* pattern buffer size of the context.
XmSampleBytes == {2, 3}
XmPatternBytes == {1, 2, 4}
XmPatternBufs == {16, 32}

\* walign(f, align)
walign(file, align) ==
    file \o [k \in 1..((align - (Len(file) % align)) % align) |-> 0]

\* Payload of n bytes.
wpayload(file, n) == file \o [k \in 1..n |-> 255]

\* w32_placeholderf / w16_placeholderf on the file named f of the state
\* st = [hash, xm64, meta, set].
xm_placeholderf(st, f, nm, w) ==
    CHOOSE r \in
      {[st EXCEPT ![f] = q.file, !.hash[nm] = q.data] :
       q \in {placeholder_named(st[f], st.hash[nm], w)}} : TRUE

\* placeholder_set_offset on the file named f.
xm_placeholder_set_offset(st, f, offset, nm) ==
    CHOOSE r \in
      {[st EXCEPT ![f] = q.file, !.hash[nm] = q.data, !.set[nm] = offset] :
       q \in {placeholder_make(st[f], st.hash[nm], offset)}} : TRUE

\* The header of xm_context_save: magic, version 11 and the two references.
xm_save_header(hash) ==
    xm_placeholderf(
      xm_placeholderf(
        [hash |-> hash, xm64 |-> <<88, 77, 54, 52, 11>>, meta |-> <<>>,
         set |-> [nm \in XmNames |-> -1]],
        "xm64", "metadata_offset", 4),
      "xm64", "metadata_size", 4)

\* xm_save_wave_internally for the one sample of nbytes bytes.
xm_save_wave_internally(st, nbytes) ==
    CHOOSE r \in
      {xm_placeholder_set_offset([st EXCEPT !.xm64 = wpayload(a, nbytes)],
                                 "meta", Len(a), "sample_0_0") :
       a \in {walign(st.xm64, 2)}} : TRUE

\* The metadata fields that are references, in the order of the file.
xm_save_meta(st) ==
    xm_placeholderf(
      xm_placeholderf(
        xm_placeholderf(
          xm_placeholderf(st, "meta", "ctx_size_stream_pattern_buf", 4),
          "meta", "pattern_0", 4),
        "meta", "pattern_size_0", 2),
      "meta", "sample_0_0", 4)

\* The pattern of nbytes compressed bytes and the closing of the file.
xm_save_patterns(st, nbytes, patbuf) ==
    xm_placeholder_set_offset(
      xm_placeholder_set_offset(
        xm_placeholder_set_offset([st EXCEPT !.xm64 = wpayload(@, nbytes)],
                                  "meta", Len(st.xm64), "pattern_0"),
        "meta", nbytes, "pattern_size_0"),
      "meta", patbuf, "ctx_size_stream_pattern_buf")

xm_save_close(st) ==
    CHOOSE r \in
      {[t EXCEPT !.xm64 = @ \o t.meta] :
       t \in {xm_placeholder_set_offset(
                xm_placeholder_set_offset(
                  [st EXCEPT !.xm64 = walign(@, 2)],
                  "xm64", Len(walign(st.xm64, 2)), "metadata_offset"),
                "xm64", Len(st.meta), "metadata_size")}} : TRUE

\* static void xm_context_save(ctx, xm64, outfn)
xm_context_save(hash, sbytes, pbytes, patbuf) ==
    xm_save_close(
      xm_save_patterns(
        xm_save_meta(xm_save_wave_internally(xm_save_header(hash), sbytes)),
        pbytes, patbuf))

InitLeak ==
    /\ buf = samplebuffer_init(0, 8, 0)
    /\ err = ""
    /\ last = NoObs
    /\ wav = NoWav
    /\ cod = [pc |-> "leak", hash |-> [nm \in XmNames |-> NoPlaceholder],
              out |-> <<>>]

\* convert() on an .xm argument.
LeakConvertXm(sbytes, pbytes, patbuf) ==
    /\ cod.pc = "leak"
    /\ Len(cod.out) < MaxXmFiles
    /\ \E r \in {xm_context_save(cod.hash, sbytes, pbytes, patbuf)} :
          cod' = [cod EXCEPT !.hash = r.hash,
                             !.out = Append(@, [xm64 |-> r.xm64,
                                                meta |-> r.meta,
                                                set |-> r.set])]
    /\ UNCHANGED <<buf, err, last, wav>>

NextLeak ==
    \E sbytes \in XmSampleBytes, pbytes \in XmPatternBytes,
       patbuf \in XmPatternBufs : LeakConvertXm(sbytes, pbytes, patbuf)

SpecLeak == InitLeak /\ [][NextLeak]_vars

\* Where the references are: two in the header of the xm64 file, four in
\* the metadata.
XmHeaderHolds(o, nm, pos) == HoldsValue(o.xm64, pos, 4, o.set[nm])

XmMetaHolds(o, nm, pos, w) == HoldsValue(o.meta, pos, w, o.set[nm])

XmFieldsOwn(o) ==
    /\ XmHeaderHolds(o, "metadata_offset", 5)
    /\ XmHeaderHolds(o, "metadata_size", 9)
    /\ XmMetaHolds(o, "ctx_size_stream_pattern_buf", 0, 4)
    /\ XmMetaHolds(o, "pattern_0", 4, 4)
    /\ XmMetaHolds(o, "pattern_size_0", 8, 2)
    /\ XmMetaHolds(o, "sample_0_0", 10, 4)

\* C37: every output file of a run holds, in its metadata_offset,
\* metadata_size, pattern and sample fields, the values set while that
\* file was written, not those of a file converted before it.
C37_NoPlaceholderLeak ==
    cod.pc = "leak" => \A i \in 1..Len(cod.out) : XmFieldsOwn(cod.out[i])

\* What does hold: the first file of a run is right in every field, and
\* the sample field, whose name is set before it is referenced, is right
\* in every file.
FirstFileAndSamplesOwn ==
    cod.pc = "leak" =>
        /\ Len(cod.out) >= 1 => XmFieldsOwn(cod.out[1])
        /\ \A i \in 1..Len(cod.out) :
              XmMetaHolds(cod.out[i], "sample_0_0", 10, 4)

\* A later file's header and pattern fields are those of the first file.
LaterFileHoldsFirstValues ==
    cod.pc = "leak" =>
        \A i \in 2..Len(cod.out) :
            /\ HoldsValue(cod.out[i].xm64, 5, 4,
                          cod.out[1].set["metadata_offset"])
            /\ HoldsValue(cod.out[i].meta, 4, 4, cod.out[1].set["pattern_0"])
            /\ HoldsValue(cod.out[i].meta, 8, 2,
                          cod.out[1].set["pattern_size_0"])

(***************************************************************************)
(* audioconv64: the sample rate conversion of wav_convert                  *)
(* (conv_wav64.cpp:645-705).  cod.wav is the wav_data_t after read_wav and *)
(* the looping flags: cnt frames at sampleRate Hz, looping from            *)
(* loopOffset.  The resampler is libsamplerate; the number of frames it    *)
(* generates is drawn from the two integers around cnt * ratio.  All the   *)
(* products of these runs are below 2^31.                                  *)
(***************************************************************************)
OPUS_SAMPLE_RATE == 48000

WavRates == {8000, 16000, 22050, 32000, 44100, 48000}
WavCounts == {24, 48}
WavLoopOffsets == {0, 8, 16, 23}

\* --wav-compress level: none, vadpcm, opus
WavCompress == {0, 1, 3}

\* The resampling block: [wav, flag_wav_resample, resampled, to].
wav_resample(w, flag_wav_resample, flag_wav_compress, gen) ==
    LET wavResampleTo == IF flag_wav_compress = 3 THEN OPUS_SAMPLE_RATE
                         ELSE flag_wav_resample
        flag == IF flag_wav_compress = 3 /\ flag_wav_resample = 0
                THEN w.sampleRate ELSE flag_wav_resample
    IN  IF wavResampleTo # 0 /\ w.sampleRate # wavResampleTo
        THEN CHOOSE r \in
               {[wav |-> [v EXCEPT !.loopOffset =
                            (v.loopOffset * wavResampleTo) \div v.sampleRate],
                 flag_wav_resample |-> flag, resampled |-> TRUE,
                 to |-> wavResampleTo] :
                v \in {[w EXCEPT !.cnt = gen,
                                 !.sampleRate = wavResampleTo]}} : TRUE
        ELSE [wav |-> w, flag_wav_resample |-> flag, resampled |-> FALSE,
              to |-> wavResampleTo]

\* Frames src_simple may report as generated for cnt input frames.
src_frames_gen(cnt, rate, to) ==
    IF to = 0 THEN {cnt}
    ELSE {(cnt * to) \div rate, ((cnt * to) \div rate) + 1}

InitRate ==
    /\ buf = samplebuffer_init(0, 8, 0)
    /\ err = ""
    /\ last = NoObs
    /\ wav = NoWav
    /\ \E rate \in WavRates, cnt \in WavCounts, looping \in BOOLEAN,
          off \in WavLoopOffsets, resample \in {0} \cup WavRates,
          compress \in WavCompress :
          /\ ~looping => off = 0
          /\ cod = [pc |-> "rate",
                    wav |-> [cnt |-> cnt, sampleRate |-> rate,
                             looping |-> looping, loopOffset |-> off],
                    flag_wav_resample |-> resample,
                    flag_wav_compress |-> compress,
                    resampled |-> FALSE, to |-> 0,
                    was |-> [cnt |-> cnt, sampleRate |-> rate,
                             looping |-> looping, loopOffset |-> off]]

RateConvert(gen) ==
    /\ cod.pc = "rate"
    /\ \E r \in {wav_resample(cod.wav, cod.flag_wav_resample,
                              cod.flag_wav_compress, gen)} :
          cod' = [cod EXCEPT !.pc = "rate_done", !.wav = r.wav,
                             !.flag_wav_resample = r.flag_wav_resample,
                             !.resampled = r.resampled, !.to = r.to]
    /\ UNCHANGED <<buf, err, last, wav>>

NextRate ==
    \E gen \in src_frames_gen(cod.wav.cnt, cod.wav.sampleRate,
                              IF cod.flag_wav_compress = 3
                              THEN OPUS_SAMPLE_RATE
                              ELSE cod.flag_wav_resample) : RateConvert(gen)

SpecRate == InitRate /\ [][NextRate]_vars

RateResampledLoop ==
    cod.pc = "rate_done" /\ cod.resampled /\ cod.wav.looping

\* C38: when a looping input is resampled from rate R to rate R', the new
\* loop offset is the old one times R' / R.
C38_LoopOffsetRescaled ==
    RateResampledLoop =>
        cod.wav.loopOffset
            = (cod.was.loopOffset * cod.to) \div cod.was.sampleRate

\* What the block does: the rate is replaced first, so the offset is
\* multiplied and divided by the same number and stays what it was, while
\* the frame count follows the ratio.
LoopOffsetKeptAcrossResample ==
    RateResampledLoop =>
        /\ cod.wav.loopOffset = cod.was.loopOffset
        /\ cod.wav.sampleRate = cod.to
        /\ cod.wav.cnt \in src_frames_gen(cod.was.cnt, cod.was.sampleRate,
                                          cod.to)

====
